---------------------------- MODULE Spec2Model ----------------------------
(***************************************************************************)
(* Business-plan scoring engine of AsiWebsite (UnifiedBusinessPlanAnalyzer *)
(* in ai_analysis/src/analyzers/analyzer.py): feature extraction, the 12   *)
(* criterion evaluations, aggregation, eligibility, recommendations, and   *)
(* the parser of LLM replies.                                              *)
(*                                                                         *)
(* Representation.                                                         *)
(*  - A text is a sequence of lines; the Python string it stands for is    *)
(*    the concatenation of line + "\n" over the sequence, so <<>> is the   *)
(*    empty string and <<"">> is "\n".  Lines are drawn from InputLines,   *)
(*    a vocabulary of concrete strings.  "DENSE PAGE" names the 2500-word  *)
(*    line made of 100 copies, separated by one space, of                  *)
(*      Our Team has strong experience: the solution is an innovation for  *)
(*      a problem in the market, revenue $500,000, 15% profit, strategy,   *)
(*      limited risk, research done.                                       *)
(*    LineStats and LineTerms record, for each vocabulary line, what       *)
(*    str.split, re.findall and str.count return on that string.           *)
(*  - Points are Python floats in the source.  Here they are exact         *)
(*    rationals counted in units of 1/Unit point, so that every product    *)
(*    and quotient the rule-based path forms is an integer.  Rounding of   *)
(*    binary floating point is not represented.                            *)
(***************************************************************************)
EXTENDS Integers, Sequences, FiniteSets, TLC

VARIABLES
  analyzers,  \* analyzer instance -> [criteria, threshold, business_keywords]
  clock,      \* wall clock read by time.time() and datetime.now()
  call,       \* the call being served and its outcome, NoCall between calls
  memo,       \* an earlier completed call, kept for comparison
  ai_client,  \* the orchestrator's UnifiedAIClient, NoClient before it is built
  db          \* the SQLite database: candidatures, analysis_results, email_tracking

vars == <<analyzers, clock, call, memo, ai_client, db>>

\* ------------------------------ bounds ---------------------------------
MaxLines == 2
MaxRepeatLines == 1
MaxResponseLines == 2
NumAnalyzers == 2
MaxClock == 1

\* one point, in model units (see Representation)
Unit == 300

\* ------------------------------ helpers --------------------------------
Min(x, y) == IF x <= y THEN x ELSE y

Max(x, y) == IF x >= y THEN x ELSE y

RECURSIVE Sum(_)
Sum(s) == IF Len(s) = 0 THEN 0 ELSE Head(s) + Sum(Tail(s))

\* sequences over S of length 0..n
SeqsUpTo(S, n) == UNION {[1..k -> S] : k \in 0..n}

\* dict.get(key, default)
dict_get(d, key, default) == IF key \in DOMAIN d THEN d[key] ELSE default

\* ---------------------------- input lines ------------------------------
InputLines ==
  {"",
   "Our Team: founder and staff",
   "Problème: a real problem, un besoin",
   "Solution: an innovation",
   "revenue revenue revenue $500,000 15%",
   "Lorem ipsum dolor sit amet.",
   "DENSE PAGE",
   "Budget: $",
   "500,000 total"}

\* str.lower() on one line
LowerLine ==
    "" :> "" @@
    "Our Team: founder and staff" :> "our team: founder and staff" @@
    "Problème: a real problem, un besoin" :> "problème: a real problem, un besoin" @@
    "Solution: an innovation" :> "solution: an innovation" @@
    "revenue revenue revenue $500,000 15%" :> "revenue revenue revenue $500,000 15%" @@
    "Lorem ipsum dolor sit amet." :> "lorem ipsum dolor sit amet." @@
    "DENSE PAGE" :> "dense page" @@
    "Budget: $" :> "budget: $" @@
    "500,000 total" :> "500,000 total" @@
    "our team: founder and staff" :> "our team: founder and staff" @@
    "problème: a real problem, un besoin" :> "problème: a real problem, un besoin" @@
    "solution: an innovation" :> "solution: an innovation" @@
    "lorem ipsum dolor sit amet." :> "lorem ipsum dolor sit amet." @@
    "dense page" :> "dense page" @@
    "budget: $" :> "budget: $"

\* Per line: len(line); len(line.split()); the numbers of matches of
\* [.!?]+, \d+, \d+% and [$€£]\s*[\d,]+ inside the line; whether the line
\* ends with a currency sign (then only white space), starts with a digit or
\* comma (after white space only), and is white space only.
LineStats ==
    "" :>
      [length |-> 0, words |-> 0, stops |-> 0, numbers |-> 0, percentages |-> 0,
       currency |-> 0, endsCur |-> FALSE, startsAmt |-> FALSE, blank |-> TRUE] @@
    "Our Team: founder and staff" :>
      [length |-> 27, words |-> 5, stops |-> 0, numbers |-> 0, percentages |-> 0,
       currency |-> 0, endsCur |-> FALSE, startsAmt |-> FALSE, blank |-> FALSE] @@
    "Problème: a real problem, un besoin" :>
      [length |-> 35, words |-> 6, stops |-> 0, numbers |-> 0, percentages |-> 0,
       currency |-> 0, endsCur |-> FALSE, startsAmt |-> FALSE, blank |-> FALSE] @@
    "Solution: an innovation" :>
      [length |-> 23, words |-> 3, stops |-> 0, numbers |-> 0, percentages |-> 0,
       currency |-> 0, endsCur |-> FALSE, startsAmt |-> FALSE, blank |-> FALSE] @@
    "revenue revenue revenue $500,000 15%" :>
      [length |-> 36, words |-> 5, stops |-> 0, numbers |-> 3, percentages |-> 1,
       currency |-> 1, endsCur |-> FALSE, startsAmt |-> FALSE, blank |-> FALSE] @@
    "Lorem ipsum dolor sit amet." :>
      [length |-> 27, words |-> 5, stops |-> 1, numbers |-> 0, percentages |-> 0,
       currency |-> 0, endsCur |-> FALSE, startsAmt |-> FALSE, blank |-> FALSE] @@
    "DENSE PAGE" :>
      [length |-> 15999, words |-> 2500, stops |-> 100, numbers |-> 300, percentages |-> 100,
       currency |-> 100, endsCur |-> FALSE, startsAmt |-> FALSE, blank |-> FALSE] @@
    "Budget: $" :>
      [length |-> 9, words |-> 2, stops |-> 0, numbers |-> 0, percentages |-> 0,
       currency |-> 0, endsCur |-> TRUE, startsAmt |-> FALSE, blank |-> FALSE] @@
    "500,000 total" :>
      [length |-> 13, words |-> 2, stops |-> 0, numbers |-> 2, percentages |-> 0,
       currency |-> 0, endsCur |-> FALSE, startsAmt |-> TRUE, blank |-> FALSE]

\* Per line, original and lower-cased: term -> line.count(term), for the
\* terms that occur in it (case-sensitive, as str.count is).
LineTerms ==
    "" :> <<>> @@
    "Our Team: founder and staff" :> ("founder" :> 1 @@ "staff" :> 1) @@
    "our team: founder and staff" :> ("team" :> 1 @@ "founder" :> 1 @@ "staff" :> 1) @@
    "Problème: a real problem, un besoin" :> ("problem" :> 1 @@ "besoin" :> 1) @@
    "problème: a real problem, un besoin" :>
      ("problème" :> 1 @@ "problem" :> 1 @@ "besoin" :> 1) @@
    "Solution: an innovation" :> ("innovation" :> 1) @@
    "solution: an innovation" :> ("solution" :> 1 @@ "innovation" :> 1) @@
    "revenue revenue revenue $500,000 15%" :> ("revenue" :> 3) @@
    "Lorem ipsum dolor sit amet." :> <<>> @@
    "lorem ipsum dolor sit amet." :> <<>> @@
    "DENSE PAGE" :>
      ("revenue" :> 100 @@ "profit" :> 100 @@ "market" :> 100 @@ "strategy" :> 100 @@
       "experience" :> 100 @@ "solution" :> 100 @@ "innovation" :> 100 @@ "risk" :> 100 @@
       "research" :> 100 @@ "strong" :> 100 @@ "limited" :> 100 @@ "problem" :> 100) @@
    "dense page" :>
      ("revenue" :> 100 @@ "profit" :> 100 @@ "market" :> 100 @@ "strategy" :> 100 @@
       "team" :> 100 @@ "experience" :> 100 @@ "solution" :> 100 @@ "innovation" :> 100 @@
       "risk" :> 100 @@ "research" :> 100 @@ "strong" :> 100 @@ "limited" :> 100 @@
       "problem" :> 100) @@
    "Budget: $" :> <<>> @@
    "budget: $" :> ("budget" :> 1) @@
    "500,000 total" :> <<>>

\* the lines of the texts that are analysed repeatedly
RepeatLines ==
  {"",
   "Our Team: founder and staff",
   "DENSE PAGE"}

\* the texts handed to the engine
Texts(n) == SeqsUpTo(InputLines, n)

RepeatTexts(n) == SeqsUpTo(RepeatLines, n)

\* text.lower()
lower(text) == [i \in 1..Len(text) |-> LowerLine[text[i]]]

\* text.count(term): occurrences add up over the lines, no term holds "\n"
str_count(text, term) ==
  Sum([i \in 1..Len(text) |-> dict_get(LineTerms[text[i]], term, 0)])

\* len(text)
str_len(text) == Sum([i \in 1..Len(text) |-> LineStats[text[i]].length + 1])

\* len(text.split())
split_words(text) == Sum([i \in 1..Len(text) |-> LineStats[text[i]].words])

\* len(re.split(r'[.!?]+', text)): one more piece than there are matches
split_sentences(text) == 1 + Sum([i \in 1..Len(text) |-> LineStats[text[i]].stops])

\* len([p for p in text.split('\n\n') if p.strip()]): "\n\n" arises exactly at
\* an empty line, so the non-blank pieces are the maximal runs of non-empty
\* lines that hold a non-blank line
split_paragraphs(text) ==
  Cardinality({i \in 1..Len(text) :
      /\ LineStats[text[i]].length > 0
      /\ (i = 1 \/ LineStats[text[i - 1]].length = 0)
      /\ \E j \in i..Len(text) :
            /\ ~LineStats[text[j]].blank
            /\ \A k \in i..j : LineStats[text[k]].length > 0})

\* len(re.findall(r'\d+', text))
findall_numbers(text) == Sum([i \in 1..Len(text) |-> LineStats[text[i]].numbers])

\* len(re.findall(r'\d+%', text))
findall_percentages(text) == Sum([i \in 1..Len(text) |-> LineStats[text[i]].percentages])

\* len(re.findall(r'[$€£]\s*[\d,]+', text)): the matches inside the lines, and
\* one for each line ending with a currency sign whose next non-blank line
\* starts with an amount (\s* runs over the line breaks)
findall_currency(text) ==
  Sum([i \in 1..Len(text) |-> LineStats[text[i]].currency])
  + Cardinality({i \in 1..Len(text) :
      /\ LineStats[text[i]].endsCur
      /\ \E j \in (i + 1)..Len(text) :
            /\ LineStats[text[j]].startsAmt
            /\ \A k \in (i + 1)..(j - 1) : LineStats[text[k]].blank})

\* ------------------------- static configuration ------------------------
load_business_keywords ==
  [financial |-> <<"revenue", "profit", "cost", "funding", "investment", "financial",
                   "budget", "cash flow", "roi">>,
   market |-> <<"market", "customer", "target", "segment", "competition", "industry",
                "demand", "supply">>,
   strategy |-> <<"strategy", "plan", "goal", "objective", "milestone", "timeline",
                  "execution", "implementation">>,
   team |-> <<"team", "founder", "management", "experience", "expertise", "leadership",
              "staff">>,
   product |-> <<"product", "service", "solution", "innovation", "technology", "feature",
                 "development">>,
   risk |-> <<"risk", "threat", "challenge", "mitigation", "contingency", "uncertainty",
              "vulnerability">>,
   professional |-> <<"analysis", "research", "methodology", "framework", "assessment",
                      "evaluation", "metrics", "kpi">>,
   positive |-> <<"strong", "excellent", "innovative", "unique", "competitive", "scalable",
                  "profitable", "growth">>,
   negative |-> <<"weak", "poor", "limited", "risky", "unclear", "uncertain", "difficult",
                  "challenging">>]

EvaluationCriterion(id, name, max_points, sub_criteria) ==
  [id |-> id, name |-> name, max_points |-> max_points, sub_criteria |-> sub_criteria]

SubCriterion(name, points) == [name |-> name, points |-> points]

\* the list literal of _initialize_criteria
validation_grid ==
  << EvaluationCriterion(1, "Équipe", 10,
       << SubCriterion("Équipe fondatrice identifiée", 3),
          SubCriterion("Compétences complémentaires", 4),
          SubCriterion("Expérience sectorielle", 3) >>),
     EvaluationCriterion(2, "Problématique identifiée", 10,
       << SubCriterion("Problématique réelle et bien définie", 5),
          SubCriterion("Données validantes", 5) >>),
     EvaluationCriterion(3, "Solution actuelle sur le marché", 5,
       << SubCriterion("Connaissance des solutions", 3),
          SubCriterion("Limites identifiées", 2) >>),
     EvaluationCriterion(4, "Solution proposée & Valeur ajoutée", 15,
       << SubCriterion("Solution expliquée clairement", 5),
          SubCriterion("Innovation", 5),
          SubCriterion("Impact concret", 5) >>),
     EvaluationCriterion(5, "Feuille de route du produit/service", 5,
       << SubCriterion("Plan de développement", 3),
          SubCriterion("Délais réalistes", 2) >>),
     EvaluationCriterion(6, "Clientèle ciblée", 5,
       << SubCriterion("Segment bien défini", 3),
          SubCriterion("Données quantitatives", 2) >>),
     EvaluationCriterion(7, "Concurrents", 5,
       << SubCriterion("Analyse des concurrents", 3),
          SubCriterion("Compréhension du marché", 2) >>),
     EvaluationCriterion(8, "Différenciation", 10,
       << SubCriterion("Avantage concurrentiel", 5),
          SubCriterion("Difficilement réplicable", 5) >>),
     EvaluationCriterion(9, "Stratégie de conquête du marché", 10,
       << SubCriterion("Stratégie go-to-market", 5),
          SubCriterion("Partenariats prévus", 3),
          SubCriterion("Stratégie de fidélisation", 2) >>),
     EvaluationCriterion(10, "Modèle de business", 10,
       << SubCriterion("Modèle économique clair", 5),
          SubCriterion("Génération de revenus", 5) >>),
     EvaluationCriterion(11, "Financements détaillés", 10,
       << SubCriterion("P&L", 5),
          SubCriterion("Besoins de financement", 3),
          SubCriterion("Sources de financement", 2) >>),
     EvaluationCriterion(12, "Statut juridique de l'entreprise", 5,
       << SubCriterion("Statut juridique", 3),
          SubCriterion("Conformité légale", 2) >>) >>

\* variant: the third sub-criterion of criterion 9 is allotted 3 points
initialize_criteria_typo == [validation_grid EXCEPT ![9].sub_criteria[3].points = 3]

initialize_criteria == validation_grid

\* UnifiedBusinessPlanAnalyzer.__init__
NewAnalyzer ==
  [criteria |-> initialize_criteria,
   threshold |-> 60,
   business_keywords |-> load_business_keywords]

\* variant: each term counts once however often it occurs
count_terms_presence(text, terms) ==
  Sum([k \in 1..Len(terms) |-> IF str_count(text, terms[k]) > 0 THEN 1 ELSE 0])

\* --------------------------- feature extraction ------------------------
\* sum(text.count(term) for term in terms)
count_terms(text, terms) == Sum([k \in 1..Len(terms) |-> str_count(text, terms[k])])

section_indicators ==
  <<"executive summary", "market analysis", "financial", "business model", "strategy">>

\* any(indicator in text.lower() for indicator in section_indicators)
check_sections(text) ==
  \E k \in 1..Len(section_indicators) : str_count(lower(text), section_indicators[k]) > 0

perform_comprehensive_analysis(self, text) ==
  LET text_lower == lower(text)
      kw == self.business_keywords
  IN [text_length |-> str_len(text),
      word_count |-> split_words(text),
      sentence_count |-> split_sentences(text),
      paragraph_count |-> split_paragraphs(text),
      financial_terms |-> count_terms(text_lower, kw.financial),
      market_terms |-> count_terms(text_lower, kw.market),
      strategy_terms |-> count_terms(text_lower, kw.strategy),
      team_terms |-> count_terms(text_lower, kw.team),
      product_terms |-> count_terms(text_lower, kw.product),
      risk_terms |-> count_terms(text_lower, kw.risk),
      has_sections |-> check_sections(text),
      has_numbers |-> findall_numbers(text),
      has_percentages |-> findall_percentages(text),
      has_currency |-> findall_currency(text),
      professional_terms |-> count_terms(text_lower, kw.professional),
      positive_sentiment |-> count_terms(text_lower, kw.positive),
      negative_sentiment |-> count_terms(text_lower, kw.negative)]

\* --------------------------- criterion evaluator -----------------------
\* variant: the generic branch looks up the word count
criterion_terms_key_words == [id \in 1..12 |-> "word_count"]

\* f"criterion_{criterion.id}_terms"
criterion_terms_key ==
  <<"criterion_1_terms", "criterion_2_terms", "criterion_3_terms", "criterion_4_terms",
    "criterion_5_terms", "criterion_6_terms", "criterion_7_terms", "criterion_8_terms",
    "criterion_9_terms", "criterion_10_terms", "criterion_11_terms", "criterion_12_terms">>

\* variant: whole points only
Times_whole(n, num, den) == ((n * num) \div den) * Unit

\* n * (num/den) points, in units
Times(n, num, den) == (n * num * Unit) \div den

\* variant: the lookup defaults to 1
relevant_terms_of_default_one(criterion, analysis_data) ==
  dict_get(analysis_data, criterion_terms_key[criterion.id], 1)

\* analysis_data.get(f"criterion_{criterion.id}_terms", 0)
relevant_terms_of(criterion, analysis_data) ==
  dict_get(analysis_data, criterion_terms_key[criterion.id], 0)

\* variant: the financing branch is not capped
criterion_score_uncapped(criterion, text_lower, analysis_data) ==
  LET cap == criterion.max_points * Unit
  IN CASE criterion.id = 1 ->
            <<Min(Times(analysis_data.team_terms, 3, 10), cap),
              <<"Team indicators found", analysis_data.team_terms>> >>
       [] criterion.id = 2 ->
            LET problem_indicators == str_count(text_lower, "problème")
                                      + str_count(text_lower, "problem")
                                      + str_count(text_lower, "besoin")
            IN <<Min(Times(problem_indicators, 2, 1), cap),
                 <<"Problem indicators", problem_indicators>> >>
       [] criterion.id = 4 ->
            LET solution_score == str_count(text_lower, "solution")
                                  + str_count(text_lower, "innovation")
            IN <<Min(Times(solution_score, 3, 2), cap),
                 <<"Solution indicators", solution_score>> >>
       [] criterion.id = 10 ->
            LET business_score == analysis_data.financial_terms
                                  + (IF analysis_data.has_currency > 0 THEN 1 ELSE 0) * 3
            IN <<Min(Times(business_score, 8, 10), cap),
                 <<"Business model indicators", business_score>> >>
       [] criterion.id = 11 ->
            LET financial_score == analysis_data.financial_terms
                                   + analysis_data.has_currency
                                   + analysis_data.has_percentages
            IN <<Times(financial_score, 6, 10),
                 <<"Financial indicators", financial_score>> >>
       [] OTHER ->
            LET relevant_terms == relevant_terms_of(criterion, analysis_data)
            IN <<Min(Times(relevant_terms, 1, 1), cap),
                 <<"Generic scoring based on relevance">> >>

\* the if/elif chain: <<team_score in units, reasoning>>
criterion_score(criterion, text_lower, analysis_data) ==
  LET cap == criterion.max_points * Unit
  IN CASE criterion.id = 1 ->
            <<Min(Times(analysis_data.team_terms, 3, 10), cap),
              <<"Team indicators found", analysis_data.team_terms>> >>
       [] criterion.id = 2 ->
            LET problem_indicators == str_count(text_lower, "problème")
                                      + str_count(text_lower, "problem")
                                      + str_count(text_lower, "besoin")
            IN <<Min(Times(problem_indicators, 2, 1), cap),
                 <<"Problem indicators", problem_indicators>> >>
       [] criterion.id = 4 ->
            LET solution_score == str_count(text_lower, "solution")
                                  + str_count(text_lower, "innovation")
            IN <<Min(Times(solution_score, 3, 2), cap),
                 <<"Solution indicators", solution_score>> >>
       [] criterion.id = 10 ->
            LET business_score == analysis_data.financial_terms
                                  + (IF analysis_data.has_currency > 0 THEN 1 ELSE 0) * 3
            IN <<Min(Times(business_score, 8, 10), cap),
                 <<"Business model indicators", business_score>> >>
       [] criterion.id = 11 ->
            LET financial_score == analysis_data.financial_terms
                                   + analysis_data.has_currency
                                   + analysis_data.has_percentages
            IN <<Min(Times(financial_score, 6, 10), cap),
                 <<"Financial indicators", financial_score>> >>
       [] OTHER ->
            LET relevant_terms == relevant_terms_of(criterion, analysis_data)
            IN <<Min(Times(relevant_terms, 1, 1), cap),
                 <<"Generic scoring based on relevance">> >>

\* variant: the score is split evenly over the sub-criteria
sub_score_even(team_score, criterion, sub) == team_score \div Len(criterion.sub_criteria)

\* (team_score / criterion.max_points) * sub["points"]
sub_score(team_score, criterion, sub) == (team_score * sub.points) \div criterion.max_points

evaluate_criterion_with_rules(criterion, text, analysis_data) ==
  LET text_lower == lower(text)
      scored == criterion_score(criterion, text_lower, analysis_data)
      team_score == scored[1]
  IN [criterion_id |-> criterion.id,
      criterion_name |-> criterion.name,
      max_points |-> criterion.max_points,
      earned_points |-> team_score,
      reasoning |-> scored[2],
      sub_scores |-> [k \in 1..Len(criterion.sub_criteria) |->
                        [name |-> criterion.sub_criteria[k].name,
                         max_points |-> criterion.sub_criteria[k].points,
                         earned_points |-> sub_score(team_score, criterion,
                                                     criterion.sub_criteria[k])]]]

\* --------------------------- recommendations ---------------------------
\* f"{x:.1f}" of a value in units: the value in tenths of a point
format_1f(x) == (x * 10 + Unit \div 2) \div Unit

\* (cr.earned_points / cr.max_points) * 100 if cr.max_points > 0 else 0,
\* in units of 1/Unit percent
performance_pct(cr) ==
  IF cr.max_points > 0 THEN (cr.earned_points * 100) \div cr.max_points ELSE 0

\* the return value None
None == [priority |-> "None", sep |-> "None", title |-> "None", content |-> <<>>]

recommendations_map ==
  << "Renforcement de l'équipe fondatrice",
     "Validation de la problématique marché",
     "Analyse concurrentielle approfondie",
     "Clarification de la proposition de valeur",
     "Structuration de la roadmap produit",
     "Segmentation et sizing du marché cible",
     "Intelligence concurrentielle stratégique",
     "Construction d'avantages concurrentiels durables",
     "Stratégie de conquête marché structurée",
     "Optimisation du modèle économique",
     "Plan de financement et projections financières",
     "Structuration juridique et compliance" >>

\* variant: HAUTE needs both a 10-point criterion and a performance below 50
specific_priority_both(weak_criterion) ==
  IF weak_criterion.max_points >= 10 /\ weak_criterion.performance < 40 * Unit
    THEN "CRITIQUE"
  ELSE IF weak_criterion.max_points >= 10 /\ weak_criterion.performance < 50 * Unit
    THEN "HAUTE"
  ELSE IF weak_criterion.performance < 60 * Unit
    THEN "MOYENNE"
  ELSE "FAIBLE"

\* variant: CRITIQUE is kept for criteria of 15 points
specific_priority_large(weak_criterion) ==
  IF weak_criterion.max_points >= 15 /\ weak_criterion.performance < 40 * Unit
    THEN "CRITIQUE"
  ELSE IF weak_criterion.max_points >= 10 \/ weak_criterion.performance < 50 * Unit
    THEN "HAUTE"
  ELSE IF weak_criterion.performance < 60 * Unit
    THEN "MOYENNE"
  ELSE "FAIBLE"

specific_priority(weak_criterion) ==
  IF weak_criterion.max_points >= 10 /\ weak_criterion.performance < 40 * Unit
    THEN "CRITIQUE"
  ELSE IF weak_criterion.max_points >= 10 \/ weak_criterion.performance < 50 * Unit
    THEN "HAUTE"
  ELSE IF weak_criterion.performance < 60 * Unit
    THEN "MOYENNE"
  ELSE "FAIBLE"

\* variant: the label and the title are joined by a bare hyphen
generate_specific_recommendation_tight(weak_criterion, analysis_data) ==
  IF weak_criterion.id \in DOMAIN recommendations_map
    THEN [priority |-> specific_priority(weak_criterion), sep |-> "-",
          title |-> recommendations_map[weak_criterion.id],
          content |-> <<format_1f(weak_criterion.points), weak_criterion.max_points>>]
    ELSE None

\* f"{priority} - {title}: {content}": the string is priority, sep, title,
\* ": " and content in a row; the content embeds points (.1f) and max
generate_specific_recommendation(weak_criterion, analysis_data) ==
  IF weak_criterion.id \in DOMAIN recommendations_map
    THEN [priority |-> specific_priority(weak_criterion), sep |-> " - ",
          title |-> recommendations_map[weak_criterion.id],
          content |-> <<format_1f(weak_criterion.points), weak_criterion.max_points>>]
    ELSE None

\* list.append under a condition
AppendIf(cond, s, e) == IF cond THEN Append(s, e) ELSE s

\* variant: the word-count entry is also given at exactly 1500 words
generate_general_recommendations_inclusive(analysis_data, criteria_results) ==
  LET total_score == Sum([k \in 1..Len(criteria_results) |-> criteria_results[k].earned_points])
      r1 == AppendIf(analysis_data.word_count <= 1500, <<>>,
              [priority |-> "MOYENNE", sep |-> " - ", title |-> "Développement du business plan",
               content |-> <<>>])
      r2 == AppendIf(analysis_data.has_currency = 0, r1,
              [priority |-> "HAUTE", sep |-> " - ", title |-> "Ajout d'éléments financiers",
               content |-> <<>>])
      r3 == AppendIf(total_score < 40 * Unit, r2,
              [priority |-> "CRITIQUE", sep |-> " - ", title |-> "Retravailler les fondamentaux",
               content |-> <<>>])
      r4 == AppendIf(analysis_data.professional_terms < 5, r3,
              [priority |-> "MOYENNE", sep |-> " - ", title |-> "Professionnalisation du discours",
               content |-> <<>>])
  IN r4

generate_general_recommendations(analysis_data, criteria_results) ==
  LET total_score == Sum([k \in 1..Len(criteria_results) |-> criteria_results[k].earned_points])
      r1 == AppendIf(analysis_data.word_count < 1500, <<>>,
              [priority |-> "MOYENNE", sep |-> " - ", title |-> "Développement du business plan",
               content |-> <<>>])
      r2 == AppendIf(analysis_data.has_currency = 0, r1,
              [priority |-> "HAUTE", sep |-> " - ", title |-> "Ajout d'éléments financiers",
               content |-> <<>>])
      r3 == AppendIf(total_score < 40 * Unit, r2,
              [priority |-> "CRITIQUE", sep |-> " - ", title |-> "Retravailler les fondamentaux",
               content |-> <<>>])
      r4 == AppendIf(analysis_data.professional_terms < 5, r3,
              [priority |-> "MOYENNE", sep |-> " - ", title |-> "Professionnalisation du discours",
               content |-> <<>>])
  IN r4

\* weak_criteria of the first loop: the results below 70%, in rubric order
weak_criteria_of(criteria_results) ==
  LET entry(cr) == [id |-> cr.criterion_id, name |-> cr.criterion_name,
                    performance |-> performance_pct(cr), points |-> cr.earned_points,
                    max_points |-> cr.max_points]
      all == [k \in 1..Len(criteria_results) |-> entry(criteria_results[k])]
      IsWeak(x) == x.performance < 70 * Unit
  IN SelectSeq(all, IsWeak)

\* variant: weak criteria are ranked by their deficit alone
sort_key_unweighted(x) == <<70 * Unit - x.performance, x.max_points>>

\* key=lambda x: (x['max_points'] * (70 - x['performance']), x['max_points'])
sort_key(x) == <<x.max_points * (70 * Unit - x.performance), x.max_points>>

\* tuple comparison a > b
KeyGreater(a, b) == a[1] > b[1] \/ (a[1] = b[1] /\ a[2] > b[2])

\* list.sort(key=..., reverse=True): descending keys, equal keys keep their order
sort_reverse(s) ==
  LET Before(j, i) == \/ KeyGreater(sort_key(s[j]), sort_key(s[i]))
                      \/ (sort_key(s[j]) = sort_key(s[i]) /\ j < i)
      At(k) == CHOOSE i \in 1..Len(s) : Cardinality({j \in 1..Len(s) : Before(j, i)}) = k - 1
  IN [k \in 1..Len(s) |-> s[At(k)]]

\* s[:n]
Take(s, n) == SubSeq(s, 1, Min(n, Len(s)))

\* variant: general recommendations are added below six entries
needs_general_wide(recommendations) == Len(recommendations) < 6

\* if len(recommendations) < 3
needs_general(recommendations) == Len(recommendations) < 3

\* variant: only the three highest-ranked weak criteria get a recommendation
generate_rule_based_recommendations_top3(criteria_results, analysis_data) ==
  LET weak_criteria == sort_reverse(weak_criteria_of(criteria_results))
      top == Take(weak_criteria, 3)
      recs == [k \in 1..Len(top) |-> generate_specific_recommendation(top[k], analysis_data)]
      IsRec(r) == r # None
      recommendations == SelectSeq(recs, IsRec)
      extended == IF needs_general(recommendations)
                    THEN recommendations
                         \o generate_general_recommendations(analysis_data, criteria_results)
                    ELSE recommendations
  IN Take(extended, 6)

generate_rule_based_recommendations(criteria_results, analysis_data) ==
  LET weak_criteria == sort_reverse(weak_criteria_of(criteria_results))
      top == Take(weak_criteria, 5)
      recs == [k \in 1..Len(top) |-> generate_specific_recommendation(top[k], analysis_data)]
      IsRec(r) == r # None
      recommendations == SelectSeq(recs, IsRec)
      extended == IF needs_general(recommendations)
                    THEN recommendations
                         \o generate_general_recommendations(analysis_data, criteria_results)
                    ELSE recommendations
  IN Take(extended, 6)

\* ------------------------------ aggregation ----------------------------
generate_summary(total_score, is_eligible) ==
  [score |-> format_1f(total_score),
   verdict |-> IF is_eligible THEN "ACCEPTÉ" ELSE "REFUSÉ"]

\* variant: a criterion that earns nothing is left out
score_criteria_skipping(self, text, analysis_data) ==
  LET results == [k \in 1..Len(self.criteria) |->
                    evaluate_criterion_with_rules(self.criteria[k], text, analysis_data)]
      Earns(r) == r.earned_points > 0
      kept == SelectSeq(results, Earns)
  IN [criteria_results |-> kept,
      total_score |-> Sum([k \in 1..Len(kept) |-> kept[k].earned_points])]

\* the loop over self.criteria: the results appended and the running total
score_criteria(self, text, analysis_data) ==
  LET results == [k \in 1..Len(self.criteria) |->
                    evaluate_criterion_with_rules(self.criteria[k], text, analysis_data)]
  IN [criteria_results |-> results,
      total_score |-> Sum([k \in 1..Len(results) |-> results[k].earned_points])]

\* variant: strict comparison
eligibility_strict(self, total_score) == total_score > self.threshold * Unit

\* total_score >= self.threshold
eligibility(self, total_score) == total_score >= self.threshold * Unit

\* now: the clock when the result is built; elapsed: time.time() - start_time
analyze_with_rules(self, text, now, elapsed) ==
  LET analysis_data == perform_comprehensive_analysis(self, text)
      scored == score_criteria(self, text, analysis_data)
      criteria_results == scored.criteria_results
      total_score == scored.total_score
      is_eligible == eligibility(self, total_score)
  IN [total_score |-> total_score,
      max_possible_score |-> 100,
      threshold |-> self.threshold,
      is_eligible |-> is_eligible,
      evaluation_date |-> now,
      criteria_results |-> criteria_results,
      summary |-> generate_summary(total_score, is_eligible),
      recommendations |-> generate_rule_based_recommendations(criteria_results,
                                                              analysis_data),
      analysis_method |-> "rule_based_comprehensive",
      confidence_score |-> 85,
      processing_time |-> elapsed]

\* ----------------------------- LLM replies -----------------------------
\* A reply is a sequence of lines, like a text.
ResponseLines ==
  {"Score total: 75/100",
   "Score total: 150/100",
   "Score total: 60",
   "Note globale 59.5/100",
   "CRITÈRE 1: ÉQUIPE (10 points)",
   "Équipe fondatrice identifiée: 3 - claire",
   "Score total critère 1: 7/10",
   "Score total critère 1: 12/10",
   "CRITÈRE 2: PROBLÉMATIQUE IDENTIFIÉE (10 points)",
   "Score total critère 2: 4/10",
   "RÉSUMÉ FINAL:"}

Responses(n) == SeqsUpTo(ResponseLines, n)

\* Per reply line, what the searches of the parser find inside it (a captured
\* number is given in units, <<>> stands for no match):
\*   p1, p2, p3  the three patterns of _extract_total_score
\*   mention     the i for which "CRITÈRE i:" matches (ignoring case), else 0
\*   resume      "RÉSUMÉ FINAL:" occurs
\*   crit_total  i -> capture of "Score total critère i:\s*N/max_i"
\*   score       max -> capture of "Score total critère.*?N/max"
\*   subs        sub-criterion name -> capture of "name.*?N\s*-\s*"
\*   score_cut, subs_cut  the same two searches on the part of the line that
\*               starts at the "CRITÈRE i:" match
NoFacts ==
  [p1 |-> <<>>, p2 |-> <<>>, p3 |-> <<>>, mention |-> 0, resume |-> FALSE,
   crit_total |-> <<>>, score |-> <<>>, score_cut |-> <<>>, subs |-> <<>>, subs_cut |-> <<>>]

ResponseFacts ==
    "Score total: 75/100" :>
      [NoFacts EXCEPT !.p1 = <<75 * Unit>>, !.p2 = <<75 * Unit>>, !.p3 = <<75 * Unit>>] @@
    "Score total: 150/100" :>
      [NoFacts EXCEPT !.p1 = <<150 * Unit>>, !.p2 = <<150 * Unit>>, !.p3 = <<150 * Unit>>] @@
    "Score total: 60" :> [NoFacts EXCEPT !.p2 = <<60 * Unit>>] @@
    "Note globale 59.5/100" :> [NoFacts EXCEPT !.p3 = <<(119 * Unit) \div 2>>] @@
    "CRITÈRE 1: ÉQUIPE (10 points)" :> [NoFacts EXCEPT !.mention = 1] @@
    "Équipe fondatrice identifiée: 3 - claire" :>
      [NoFacts EXCEPT !.subs = ("Équipe fondatrice identifiée" :> 3 * Unit),
                      !.subs_cut = ("Équipe fondatrice identifiée" :> 3 * Unit)] @@
    "Score total critère 1: 7/10" :>
      [NoFacts EXCEPT !.mention = 1, !.crit_total = (1 :> 7 * Unit),
                      !.score = (10 :> 7 * Unit)] @@
    "Score total critère 1: 12/10" :>
      [NoFacts EXCEPT !.mention = 1, !.crit_total = (1 :> 12 * Unit),
                      !.score = (10 :> 12 * Unit)] @@
    "CRITÈRE 2: PROBLÉMATIQUE IDENTIFIÉE (10 points)" :> [NoFacts EXCEPT !.mention = 2] @@
    "Score total critère 2: 4/10" :>
      [NoFacts EXCEPT !.mention = 2, !.crit_total = (2 :> 4 * Unit),
                      !.score = (10 :> 4 * Unit)] @@
    "RÉSUMÉ FINAL:" :> [NoFacts EXCEPT !.resume = TRUE]

\* re.search over consecutive pieces: the capture of the first piece that
\* matches, <<>> when none does
RECURSIVE first_match(_)
first_match(captures) ==
  IF Len(captures) = 0 THEN <<>>
  ELSE IF Head(captures) # <<>> THEN Head(captures)
  ELSE first_match(Tail(captures))

\* the capture as a list: <<v>> when key is matched, <<>> otherwise
capture(d, key) == IF key \in DOMAIN d THEN <<d[key]>> ELSE <<>>

\* total += float(match.group(1)) for the criteria whose pattern matches
calculate_score_from_criteria(self, response) ==
  Sum([k \in 1..Len(self.criteria) |->
         LET m == first_match([i \in 1..Len(response) |->
                     capture(ResponseFacts[response[i]].crit_total, self.criteria[k].id)])
         IN IF m # <<>> THEN m[1] ELSE 0])

extract_total_score(self, response) ==
  LET m1 == first_match([i \in 1..Len(response) |-> ResponseFacts[response[i]].p1])
      m2 == first_match([i \in 1..Len(response) |-> ResponseFacts[response[i]].p2])
      m3 == first_match([i \in 1..Len(response) |-> ResponseFacts[response[i]].p3])
      clamp(v) == Min(Max(v, 0), 100 * Unit)
  IN IF m1 # <<>> THEN clamp(m1[1])
     ELSE IF m2 # <<>> THEN clamp(m2[1])
     ELSE IF m3 # <<>> THEN clamp(m3[1])
     ELSE calculate_score_from_criteria(self, response)

\* "CRITÈRE i:.*?(?=CRITÈRE i+1:|RÉSUMÉ FINAL:|$)": from the first line that
\* mentions i (cut at the mention) up to the next line that mentions i+1 or
\* holds the résumé marker, else to the end.  <<>> when there is no match,
\* otherwise the lines of the section, the first of them being the cut one.
extract_criterion_section(response, criterion_id) ==
  LET starts == {i \in 1..Len(response) : ResponseFacts[response[i]].mention = criterion_id}
  IN IF starts = {} THEN <<>>
     ELSE LET s == CHOOSE i \in starts : \A j \in starts : i <= j
              stops == {i \in (s + 1)..Len(response) :
                          \/ ResponseFacts[response[i]].mention = criterion_id + 1
                          \/ ResponseFacts[response[i]].resume}
              e == IF stops = {} THEN Len(response) + 1
                   ELSE CHOOSE i \in stops : \A j \in stops : i <= j
          IN SubSeq(response, s, e - 1)

\* float(match.group(1)) if match else 0.0
extract_criterion_score(criterion_text, max_points) ==
  LET m == first_match([i \in 1..Len(criterion_text) |->
               IF i = 1 THEN capture(ResponseFacts[criterion_text[i]].score_cut, max_points)
               ELSE capture(ResponseFacts[criterion_text[i]].score, max_points)])
  IN IF m # <<>> THEN m[1] ELSE 0

extract_sub_criterion_score(criterion_text, sub_name) ==
  LET m == first_match([i \in 1..Len(criterion_text) |->
               IF i = 1 THEN capture(ResponseFacts[criterion_text[i]].subs_cut, sub_name)
               ELSE capture(ResponseFacts[criterion_text[i]].subs, sub_name)])
  IN IF m # <<>> THEN m[1] ELSE 0

\* reasoning keeps the section text (its first 200 characters in the source)
extract_criteria_scores(self, response) ==
  [k \in 1..Len(self.criteria) |->
     LET criterion == self.criteria[k]
         criterion_text == extract_criterion_section(response, criterion.id)
     IN [criterion_id |-> criterion.id,
         criterion_name |-> criterion.name,
         max_points |-> criterion.max_points,
         earned_points |-> extract_criterion_score(criterion_text, criterion.max_points),
         reasoning |-> criterion_text,
         sub_scores |-> [j \in 1..Len(criterion.sub_criteria) |->
                           [name |-> criterion.sub_criteria[j].name,
                            max_points |-> criterion.sub_criteria[j].points,
                            earned_points |->
                              extract_sub_criterion_score(criterion_text,
                                                          criterion.sub_criteria[j].name)]]]]

\* No reply line of the vocabulary holds "Recommandations principales:", so
\* the search fails and the three default entries are returned ([:5] keeps all).
extract_recommendations(response) ==
  Take(<< "Améliorer les critères avec les scores les plus faibles",
          "Fournir plus de données quantitatives",
          "Structurer davantage le plan de développement" >>, 5)

\* The try block; none of its steps raises on a string, so the except branch
\* (rule-based analysis of the reply) is not taken.
parse_ai_response_result(self, ai_response, now) ==
  LET total_score == extract_total_score(self, ai_response)
      criteria_results == extract_criteria_scores(self, ai_response)
      is_eligible == eligibility(self, total_score)
  IN [total_score |-> total_score,
      max_possible_score |-> 100,
      threshold |-> self.threshold,
      is_eligible |-> is_eligible,
      evaluation_date |-> now,
      criteria_results |-> criteria_results,
      summary |-> generate_summary(total_score, is_eligible),
      recommendations |-> extract_recommendations(ai_response),
      analysis_method |-> "ai_structured",
      confidence_score |-> 90,
      processing_time |-> 0]

\* ----------------------------- state machine ---------------------------
Analyzers == 1..NumAnalyzers

Methods == {"auto", "ai", "rule_based", "manual"}

NoCall ==
  [analyzer |-> 0, op |-> "none", input |-> <<>>, method |-> "none",
   outcome |-> "none", exception |-> "none", result |-> <<>>]

Returned(a, op, input, method, result) ==
  [analyzer |-> a, op |-> op, input |-> input, method |-> method,
   outcome |-> "returned", exception |-> "none", result |-> result]

Raised(a, op, input, method, exception) ==
  [analyzer |-> a, op |-> op, input |-> input, method |-> method,
   outcome |-> "raised", exception |-> exception, result |-> <<>>]

\* no UnifiedAIClient has been constructed
NoClient == [available_methods |-> <<>>]

\* the database after init_database: the tables exist and are empty
NoDb == [candidatures |-> <<>>, analysis_results |-> <<>>, email_tracking |-> <<>>]

Init ==
  /\ analyzers = [a \in Analyzers |-> NewAnalyzer]
  /\ clock = 0
  /\ call = NoCall
  /\ memo = NoCall
  /\ ai_client = NoClient
  /\ db = NoDb

\* _analyze_with_ai: raises NotImplementedError, whatever the text
analyze_with_ai(self, text) == [raised |-> TRUE, exception |-> "NotImplementedError"]

\* variant: a call narrows the team lexicon of its analyzer
analyze_business_plan_narrowing(a, text, method, d) ==
  /\ call = NoCall
  /\ clock + d <= MaxClock
  /\ clock' = clock + d
  /\ LET self == analyzers[a]
         ai == analyze_with_ai(self, text)
         op == "analyze_business_plan"
     IN call' =
          CASE method = "auto" ->
                 IF ai.raised
                   THEN Returned(a, op, text, method,
                                 analyze_with_rules(self, text, clock + d, d))
                   ELSE Returned(a, op, text, method, ai.result)
            [] method = "ai" ->
                 IF ai.raised
                   THEN Raised(a, op, text, method, ai.exception)
                   ELSE Returned(a, op, text, method, ai.result)
            [] method = "rule_based" ->
                 Returned(a, op, text, method, analyze_with_rules(self, text, clock + d, d))
            [] OTHER -> Raised(a, op, text, method, "ValueError")
  /\ analyzers' = [analyzers EXCEPT ![a].business_keywords.team = <<"team">>]
  /\ UNCHANGED <<memo, ai_client, db>>

\* variant: method 'auto' lets the failure of the AI attempt through
analyze_business_plan_no_fallback(a, text, method, d) ==
  /\ call = NoCall
  /\ clock + d <= MaxClock
  /\ clock' = clock + d
  /\ LET self == analyzers[a]
         ai == analyze_with_ai(self, text)
         op == "analyze_business_plan"
     IN call' =
          CASE method \in {"auto", "ai"} ->
                 IF ai.raised
                   THEN Raised(a, op, text, method, ai.exception)
                   ELSE Returned(a, op, text, method, ai.result)
            [] method = "rule_based" ->
                 Returned(a, op, text, method, analyze_with_rules(self, text, clock + d, d))
            [] OTHER -> Raised(a, op, text, method, "ValueError")
  /\ UNCHANGED <<analyzers, memo, ai_client, db>>

\* analyze_business_plan(text, method) on analyzer a, taking d clock ticks
analyze_business_plan(a, text, method, d) ==
  /\ call = NoCall
  /\ clock + d <= MaxClock
  /\ clock' = clock + d
  /\ LET self == analyzers[a]
         ai == analyze_with_ai(self, text)
         op == "analyze_business_plan"
     IN call' =
          CASE method = "auto" ->
                 IF ai.raised
                   THEN Returned(a, op, text, method,
                                 analyze_with_rules(self, text, clock + d, d))
                   ELSE Returned(a, op, text, method, ai.result)
            [] method = "ai" ->
                 IF ai.raised
                   THEN Raised(a, op, text, method, ai.exception)
                   ELSE Returned(a, op, text, method, ai.result)
            [] method = "rule_based" ->
                 Returned(a, op, text, method, analyze_with_rules(self, text, clock + d, d))
            [] OTHER -> Raised(a, op, text, method, "ValueError")
  /\ UNCHANGED <<analyzers, memo, ai_client, db>>

\* parse_ai_response(ai_response) on analyzer a
parse_ai_response(a, ai_response, d) ==
  /\ call = NoCall
  /\ clock + d <= MaxClock
  /\ clock' = clock + d
  /\ call' = Returned(a, "parse_ai_response", ai_response, "ai_structured",
                      parse_ai_response_result(analyzers[a], ai_response, clock + d))
  /\ UNCHANGED <<analyzers, memo, ai_client, db>>

\* the caller takes the outcome; the engine is ready for the next call
Return ==
  /\ call # NoCall
  /\ call' = NoCall
  /\ UNCHANGED <<analyzers, clock, memo, ai_client, db>>

\* the caller takes the outcome and keeps it for a later comparison
Remember ==
  /\ call.outcome = "returned"
  /\ memo = NoCall
  /\ memo' = call
  /\ call' = NoCall
  /\ UNCHANGED <<analyzers, clock, ai_client, db>>

Analyze ==
  /\ call = NoCall
  /\ \E a \in Analyzers, text \in Texts(MaxLines), method \in Methods, d \in 0..1 :
       analyze_business_plan(a, text, method, d)

Parse ==
  /\ call = NoCall
  /\ \E a \in Analyzers, r \in Responses(MaxResponseLines), d \in 0..1 :
       parse_ai_response(a, r, d)

Next == Analyze \/ Parse \/ Return

Spec == Init /\ [][Next]_vars

\* repeated calls on short texts, with an earlier outcome kept
AnalyzeAgain ==
  /\ call = NoCall
  /\ \E a \in Analyzers, text \in RepeatTexts(MaxRepeatLines), d \in 0..1 :
       analyze_business_plan(a, text, "rule_based", d)

NextRepeat == AnalyzeAgain \/ Return \/ Remember

SpecRepeat == Init /\ [][NextRepeat]_vars

\* --------------------- orchestrator and LLM client ---------------------
\* (MainBusinessPlanAnalyzer in ai_analysis/src/main_analyser.py and
\*  UnifiedAIClient in ai_agent/src/ai_integration/ai_client.py)

\* the analyzer instance owned by the orchestrator (self.analyzer)
MainAnalyzer == 1

\* names of models the Ollama server may report as downloaded
OllamaModels == {"llama3.2:1b", "phi3:mini"}

\* Per reply line: len(line), and whether "score" / "critère" occur in
\* line.lower()
ReplyStats ==
   "Score total: 75/100" :> [length |-> 19, score |-> TRUE, critere |-> FALSE] @@
   "Score total: 150/100" :> [length |-> 20, score |-> TRUE, critere |-> FALSE] @@
   "Score total: 60" :> [length |-> 15, score |-> TRUE, critere |-> FALSE] @@
   "Note globale 59.5/100" :> [length |-> 21, score |-> FALSE, critere |-> FALSE] @@
   "CRITÈRE 1: ÉQUIPE (10 points)" :> [length |-> 29, score |-> FALSE, critere |-> TRUE] @@
   "Équipe fondatrice identifiée: 3 - claire" :> [length |-> 40, score |-> FALSE, critere |-> FALSE] @@
   "Score total critère 1: 7/10" :> [length |-> 27, score |-> TRUE, critere |-> TRUE] @@
   "Score total critère 1: 12/10" :> [length |-> 28, score |-> TRUE, critere |-> TRUE] @@
   "CRITÈRE 2: PROBLÉMATIQUE IDENTIFIÉE (10 points)" :> [length |-> 47, score |-> FALSE, critere |-> TRUE] @@
   "Score total critère 2: 4/10" :> [length |-> 27, score |-> TRUE, critere |-> TRUE] @@
   "RÉSUMÉ FINAL:" :> [length |-> 13, score |-> FALSE, critere |-> FALSE]

\* What the Ollama server does during one orchestrator call:
\*   server_up  GET /api/tags answers 200 when is_server_up asks
\*   model      the name _get_available_model returns, "None" for None
\*   status     of POST /api/generate: 200, 500, or 0 when requests raises
\*   content    the "response" field of a 200 answer
OllamaDown == [server_up |-> FALSE, model |-> "None", status |-> 0, content |-> <<>>]

OllamaBehaviours ==
  {OllamaDown}
    \cup {[OllamaDown EXCEPT !.server_up = TRUE]}
    \cup {[server_up |-> TRUE, model |-> m, status |-> s, content |-> <<>>] :
            m \in OllamaModels, s \in {0, 500}}
    \cup {[server_up |-> TRUE, model |-> m, status |-> 200, content |-> c] :
            m \in OllamaModels, c \in Responses(MaxRepeatLines)}

\* UnifiedAIClient.__init__: available_methods as _check_available_methods
\* found them, ollama being true when the server listed at least one model
NewClient(ollama) == [available_methods |-> [ollama |-> ollama, rule_based |-> TRUE]]

\* _calculate_ollama_confidence, in hundredths
calculate_ollama_confidence(model, content) ==
  LET length == Sum([i \in 1..Len(content) |-> ReplyStats[content[i]].length + 1])
      base == IF model = "llama3.2:1b" THEN 75 ELSE 85
      sized == IF length < 200 THEN base - 15
               ELSE IF length > 1000 THEN base + 5 ELSE base
      structured ==
        /\ \E i \in 1..Len(content) : ReplyStats[content[i]].score
        /\ \E i \in 1..Len(content) : ReplyStats[content[i]].critere
      marked == IF structured THEN sized + 10 ELSE sized
  IN Min(Max(marked, 10), 100)

\* _analyze_ollama: an AIResponse with success = True, or an exception
analyze_ollama(client, ollama, d) ==
  IF ~client.available_methods.ollama
    THEN [raised |-> TRUE, exception |-> "Ollama not available"]
  ELSE IF ollama.model = "None"
    THEN [raised |-> TRUE, exception |-> "No models available - use rule-based fallback"]
  ELSE IF ollama.status # 200
    THEN [raised |-> TRUE, exception |-> "Ollama analysis failed"]
  ELSE IF ollama.content = <<>>
    THEN [raised |-> TRUE, exception |-> "Ollama analysis failed"]
  ELSE [raised |-> FALSE,
        response |->
          [content |-> ollama.content, method |-> "ollama",
           model_used |-> ollama.model,
           confidence |-> calculate_ollama_confidence(ollama.model, ollama.content),
           processing_time |-> d, success |-> TRUE]]

\* the condition of _analyze_business_plan: the AI path is taken
ai_path_selected(method, ollama) ==
  method = "ai" \/ (method = "auto" /\ ollama.server_up)

\* MainBusinessPlanAnalyzer._analyze_business_plan(text, method) while the
\* Ollama server behaves as ollama, taking d clock ticks.  confidence_score
\* of a parsed reply is the fraction <<hundredths, 100>>.
main_analyze_business_plan(text, method, ollama, d) ==
  /\ call = NoCall
  /\ ai_client # NoClient
  /\ clock + d <= MaxClock
  /\ clock' = clock + d
  /\ LET self == analyzers[MainAnalyzer]
         op == "_analyze_business_plan"
         input == [text |-> text, ollama |-> ollama]
         rules == analyze_with_rules(self, text, clock + d, d)
     IN call' =
          IF ai_path_selected(method, ollama)
            THEN LET ai == analyze_ollama(ai_client, ollama, d)
                 IN IF ai.raised
                      THEN Raised(MainAnalyzer, op, input, method, ai.exception)
                    ELSE IF ai.response.success
                      THEN Returned(MainAnalyzer, op, input, method,
                             [parse_ai_response_result(self, ai.response.content, clock + d)
                                EXCEPT !.processing_time = ai.response.processing_time,
                                       !.confidence_score = <<ai.response.confidence, 100>>])
                    ELSE Returned(MainAnalyzer, op, input, method, rules)
            ELSE Returned(MainAnalyzer, op, input, method, rules)
  /\ UNCHANGED <<analyzers, memo, ai_client, db>>

\* MainBusinessPlanAnalyzer.__init__ builds its UnifiedAIClient
MainInit ==
  /\ ai_client = NoClient
  /\ call = NoCall
  /\ \E ollama \in BOOLEAN : ai_client' = NewClient(ollama)
  /\ UNCHANGED <<analyzers, clock, call, memo, db>>

\* the rule-based branch: method, server state and text are free, the rest
\* of the server's behaviour is not consulted
MainAnalyzeRules ==
  /\ call = NoCall
  /\ \E text \in RepeatTexts(MaxRepeatLines), method \in Methods,
        up \in BOOLEAN, d \in 0..1 :
       /\ ~ai_path_selected(method, [OllamaDown EXCEPT !.server_up = up])
       /\ main_analyze_business_plan(text, method, [OllamaDown EXCEPT !.server_up = up], d)

\* the AI branch
MainAnalyzeAI ==
  /\ call = NoCall
  /\ \E text \in RepeatTexts(MaxRepeatLines), method \in {"ai", "auto"},
        ollama \in OllamaBehaviours, d \in 0..1 :
       /\ ai_path_selected(method, ollama)
       /\ main_analyze_business_plan(text, method, ollama, d)

NextMain == MainInit \/ MainAnalyzeRules \/ MainAnalyzeAI \/ Return

SpecMain == Init /\ [][NextMain]_vars

\* --------------- the recommendation functions on their own -------------
\* _generate_specific_recommendation and _generate_rule_based_recommendations
\* are functions of their arguments; here they are applied to weak-criterion
\* entries and to lists of twelve criterion results drawn from bounded sets.

\* earned points are drawn in steps of max_points / PointSteps
PointSteps == 20

\* the largest number of weak criteria in a drawn list of results
MaxWeak == 3

\* performance, in percent, of the weak and of the other criteria of a list
WeakLevels == {0, 50}

StrongLevels == {70, 100}

\* the entry the first loop of _generate_rule_based_recommendations builds
\* for a criterion with the given earned points
weak_entry(criterion, earned) ==
  [id |-> criterion.id, name |-> criterion.name,
   performance |-> performance_pct([earned_points |-> earned,
                                    max_points |-> criterion.max_points]),
   points |-> earned, max_points |-> criterion.max_points]

\* an EvaluationResult of a criterion at a performance level in percent
result_at(criterion, level) ==
  [criterion_id |-> criterion.id,
   criterion_name |-> criterion.name,
   max_points |-> criterion.max_points,
   earned_points |-> (criterion.max_points * level * Unit) \div 100,
   reasoning |-> <<>>,
   sub_scores |-> <<>>]

\* the features _generate_general_recommendations reads
analysis_data_of(word_count, has_currency, professional_terms) ==
  [word_count |-> word_count, has_currency |-> has_currency,
   professional_terms |-> professional_terms]

\* _generate_specific_recommendation(weak_criterion, analysis_data)
specific_recommendation(a, weak_criterion) ==
  /\ call = NoCall
  /\ call' = Returned(a, "_generate_specific_recommendation", weak_criterion, "none",
                      generate_specific_recommendation(weak_criterion, <<>>))
  /\ UNCHANGED <<analyzers, clock, memo, ai_client, db>>

\* _generate_rule_based_recommendations(criteria_results, analysis_data)
rule_based_recommendations(a, criteria_results, analysis_data) ==
  /\ call = NoCall
  /\ call' = Returned(a, "_generate_rule_based_recommendations",
                      [criteria_results |-> criteria_results,
                       analysis_data |-> analysis_data], "none",
                      generate_rule_based_recommendations(criteria_results, analysis_data))
  /\ UNCHANGED <<analyzers, clock, memo, ai_client, db>>

\* every weak entry of every criterion, on the grid of PointSteps
RecommendSpecific ==
  /\ call = NoCall
  /\ \E id \in 1..12, k \in 0..PointSteps :
       LET criterion == analyzers[MainAnalyzer].criteria[id]
           weak == weak_entry(criterion, (criterion.max_points * Unit * k) \div PointSteps)
       IN /\ weak.performance < 70 * Unit
          /\ specific_recommendation(MainAnalyzer, weak)

\* lists of results with at most MaxWeak weak criteria, and the feature
\* values on both sides of each threshold of the general recommendations
RecommendRuleBased ==
  /\ call = NoCall
  /\ \E weak \in SUBSET (1..12), low \in WeakLevels, high \in StrongLevels,
        word_count \in {1499, 1500}, has_currency \in {0, 1},
        professional_terms \in {4, 5} :
       /\ Cardinality(weak) <= MaxWeak
       /\ LET criteria == analyzers[MainAnalyzer].criteria
              criteria_results ==
                [i \in 1..Len(criteria) |->
                   result_at(criteria[i], IF i \in weak THEN low ELSE high)]
          IN rule_based_recommendations(MainAnalyzer, criteria_results,
               analysis_data_of(word_count, has_currency, professional_terms))

NextRecommend == RecommendSpecific \/ RecommendRuleBased \/ Return

SpecRecommend == Init /\ [][NextRecommend]_vars

\* --------- feature extraction and criterion evaluation on their own ----
\* _perform_comprehensive_analysis(text) on analyzer a
comprehensive_analysis(a, text) ==
  /\ call = NoCall
  /\ call' = Returned(a, "_perform_comprehensive_analysis", text, "none",
                      perform_comprehensive_analysis(analyzers[a], text))
  /\ UNCHANGED <<analyzers, clock, memo, ai_client, db>>

\* _evaluate_criterion_with_rules(criterion, text, analysis_data) on analyzer
\* a, for its criterion id and the features of the text
evaluate_criterion(a, id, text) ==
  /\ call = NoCall
  /\ call' = Returned(a, "_evaluate_criterion_with_rules",
                      [criterion_id |-> id, text |-> text], "none",
                      evaluate_criterion_with_rules(
                        analyzers[a].criteria[id], text,
                        perform_comprehensive_analysis(analyzers[a], text)))
  /\ UNCHANGED <<analyzers, clock, memo, ai_client, db>>

ExtractFeatures ==
  /\ call = NoCall
  /\ \E a \in Analyzers, text \in Texts(MaxLines) : comprehensive_analysis(a, text)

EvaluateCriterion ==
  /\ call = NoCall
  /\ \E a \in Analyzers, id \in 1..12, text \in Texts(MaxLines) :
       evaluate_criterion(a, id, text)

NextFeatures == ExtractFeatures \/ EvaluateCriterion \/ Return

SpecFeatures == Init /\ [][NextFeatures]_vars

\* ----------------- database, e-mail queue and workflow ------------------
\* (DatabaseManager in ai_agent/src/database/database_manager.py,
\*  EmailDatabaseManager and EmailService in ai_agent/src/my_email,
\*  MainBusinessPlanAnalyzer in ai_analysis/src/main_analyser.py,
\*  EmailQueueProcessor in ai_analysis/src/my_email/process_email_queue.py)
\*
\* A table is the sequence of its rows and a row's id is its position: ids
\* are AUTOINCREMENT and no row is deleted here.  Of a row only the columns
\* the code below reads or writes are kept.

\* rows of candidatures and of email_tracking the database may hold
MaxCandidatures == 2
MaxEmails == 2

\* largest batch_size a queue run is started with
MaxBatch == 2

\* SQL NULL in an id column, and the id no row has
NULL == 0

\* fetchone() found no row: None
NoRow == <<>>

\* hasattr(obj, name): the attributes of an object are the fields of its record
hasattr(obj, name) == name \in DOMAIN obj

\* get_candidature: the Candidature dataclass built from the columns of the
\* SELECT; email_sent is neither selected nor a field of the dataclass
get_candidature(d, candidature_id) ==
  IF candidature_id \in DOMAIN d.candidatures
    THEN [id |-> candidature_id,
          status |-> d.candidatures[candidature_id].status,
          analysis_result_id |-> d.candidatures[candidature_id].analysis_result_id]
    ELSE NoRow

\* get_analysis_result: None for an id no row has, NULL included
get_analysis_result(d, analysis_result_id) ==
  IF analysis_result_id \in DOMAIN d.analysis_results
    THEN d.analysis_results[analysis_result_id]
    ELSE NoRow

\* create_candidature: status and email_sent take their column defaults
create_candidature(d) ==
  [d EXCEPT !.candidatures =
     Append(@, [status |-> "pending", email_sent |-> FALSE, analysis_result_id |-> NULL])]

\* update_candidature_status: nothing is written when the row does not exist
update_candidature_status(d, candidature_id, new_status) ==
  IF candidature_id \in DOMAIN d.candidatures
    THEN [d EXCEPT !.candidatures[candidature_id].status = new_status]
    ELSE d

\* store_analysis_result: the INSERT, then the UPDATE of the candidature
store_analysis_result(d, candidature_id, is_eligible) ==
  LET analysis_result_id == Len(d.analysis_results) + 1
      inserted == [d EXCEPT !.analysis_results =
                     Append(@, [candidature_id |-> candidature_id,
                                is_eligible |-> is_eligible])]
  IN IF candidature_id \in DOMAIN d.candidatures
       THEN [inserted EXCEPT
               !.candidatures[candidature_id].analysis_result_id = analysis_result_id,
               !.candidatures[candidature_id].status = "analyzed"]
       ELSE inserted

\* _mark_email_sent
mark_email_sent(d, candidature_id) ==
  IF candidature_id \in DOMAIN d.candidatures
    THEN [d EXCEPT !.candidatures[candidature_id].email_sent = TRUE]
    ELSE d

\* add_email_to_queue: the row is inserted 'pending' with retry_count 0;
\* created_at, the second of the insert, never decreases along the table
add_email_to_queue(d, candidature_id) ==
  [d EXCEPT !.email_tracking =
     Append(@, [candidature_id |-> candidature_id, sent_status |-> "pending",
                retry_count |-> 0])]

\* EmailService.add_candidature_to_queue: False for an unknown candidature
add_candidature_to_queue(d, candidature_id) ==
  IF get_candidature(d, candidature_id) = NoRow
    THEN [db |-> d, ok |-> FALSE]
    ELSE [db |-> add_email_to_queue(d, candidature_id), ok |-> TRUE]

\* the rows of the SELECT of get_pending_emails before ORDER BY and LIMIT
pending_emails(d) ==
  {i \in DOMAIN d.email_tracking :
     /\ d.email_tracking[i].sent_status = "pending"
     /\ d.email_tracking[i].candidature_id \in DOMAIN d.candidatures}

\* get_pending_emails: ORDER BY created_at ASC LIMIT ?.  The pending rows are
\* read through the index on sent_status, in id order, and sorted by
\* created_at, rows of the same second staying in id order: the result is
\* the set of the first pending rows by id.
get_pending_emails(d, limit) ==
  LET pending == pending_emails(d)
  IN {t \in pending : Cardinality({u \in pending : u < t}) < limit}

\* variant: a failed row goes back to 'pending' while it has attempts left
update_email_status_requeue(d, email_id, status) ==
  IF status = "sent"
    THEN [d EXCEPT !.email_tracking[email_id].sent_status = "sent"]
    ELSE [d EXCEPT !.email_tracking[email_id].sent_status =
                      IF d.email_tracking[email_id].retry_count + 1 < 3
                        THEN "pending" ELSE status,
                   !.email_tracking[email_id].retry_count = @ + 1]

\* update_email_status: any status but 'sent' also counts a retry
update_email_status(d, email_id, status) ==
  IF status = "sent"
    THEN [d EXCEPT !.email_tracking[email_id].sent_status = "sent"]
    ELSE [d EXCEPT !.email_tracking[email_id].sent_status = status,
                   !.email_tracking[email_id].retry_count = @ + 1]

RECURSIVE update_all(_, _, _)
\* the updates of one queue run, row after row
update_all(d, rows, status_of) ==
  IF rows = {} THEN d
  ELSE LET i == CHOOSE r \in rows : \A q \in rows : r <= q
       IN update_all(update_email_status(d, i, status_of[i]), rows \ {i}, status_of)

\* EmailService.process_email_queue(batch_size): every run the database and
\* the mail server allow.  taken are the rows get_pending_emails returned;
\* accepted are those for which send_business_plan_email returns True.
process_email_queue(d, batch_size) ==
  UNION {
    { LET has_analysis(i) ==
            get_analysis_result(
              d, d.candidatures[d.email_tracking[i].candidature_id].analysis_result_id)
              # NoRow
          status_of == [i \in taken |->
                          IF has_analysis(i) /\ i \in accepted THEN "sent" ELSE "failed"]
          successful == {i \in taken : status_of[i] = "sent"}
      IN [db |-> update_all(d, taken, status_of),
          results |-> [processed |-> Cardinality({i \in taken : has_analysis(i)}),
                       successful |-> Cardinality(successful),
                       failed |-> Cardinality(taken \ successful),
                       taken |-> taken,
                       sent |-> successful]]
      : accepted \in SUBSET taken }
    : taken \in {get_pending_emails(d, batch_size)} }

\* what a queue run reports when no run took place
NoResults == [processed |-> 0, successful |-> 0, failed |-> 0, taken |-> {}, sent |-> {}]

\* _fallback_to_php_email: the PHP script exits with 0 or not
fallback_to_php_email(d, candidature_id, own_email, results) ==
  { [db |-> mark_email_sent(d, candidature_id), returned |-> TRUE, via |-> "php",
     own_email |-> own_email, results |-> results],
    [db |-> d, returned |-> FALSE, via |-> "none",
     own_email |-> own_email, results |-> results] }

\* _handle_email_notification(candidature_id, ...): every outcome the mail
\* server and the PHP script allow.  own_email is the id of the row this
\* call queued (NULL when it queued none), results the report of its queue
\* run, via the path that marked the candidature.
handle_email_notification(d, candidature_id, email_service) ==
  LET d1 == update_candidature_status(d, candidature_id, "analyzed")
      candidature == get_candidature(d1, candidature_id)
  IN IF hasattr(candidature, "email_sent") /\ candidature.email_sent
       THEN {[db |-> d1, returned |-> TRUE, via |-> "already",
              own_email |-> NULL, results |-> NoResults]}
     ELSE IF email_service
       THEN LET q == add_candidature_to_queue(d1, candidature_id)
                own == Len(q.db.email_tracking)
            IN IF q.ok
                 THEN UNION {
                        IF p.results.successful > 0
                          THEN {[db |-> mark_email_sent(p.db, candidature_id),
                                 returned |-> TRUE, via |-> "queue",
                                 own_email |-> own, results |-> p.results]}
                          ELSE fallback_to_php_email(p.db, candidature_id, own, p.results)
                        : p \in process_email_queue(q.db, 1) }
                 ELSE fallback_to_php_email(d1, candidature_id, NULL, NoResults)
       ELSE fallback_to_php_email(d1, candidature_id, NULL, NoResults)

\* the steps of process_complete_workflow at which an exception can leave the
\* try block once the candidature exists
WorkflowFailures == {"extraction", "store_extracted_text", "analysis", "store_analysis_result"}

\* variant: the handler of a failed step leaves the status as it is
process_complete_workflow_unmarked(d, fail_at, is_eligible, report_ok, email_service) ==
  LET created == create_candidature(d)
      candidature_id == Len(created.candidatures)
      d1 == update_candidature_status(created, candidature_id, "pending")
      stored == store_analysis_result(d1, candidature_id, is_eligible)
  IN IF fail_at \in WorkflowFailures
       THEN {[db |-> d1,
              result |-> [success |-> FALSE, candidature_id |-> candidature_id,
                          error |-> fail_at],
              management |-> << <<"pending", "pending">> >>]}
       ELSE {[db |-> h.db,
              result |-> [success |-> TRUE, candidature_id |-> candidature_id,
                          analysis_id |-> Len(stored.analysis_results),
                          report_filename |-> report_ok, email_sent |-> h.returned,
                          is_eligible |-> is_eligible],
              management |-> << <<"pending", "pending">>, <<"pending", "analyzed">>,
                                <<"analyzed", "analyzed">> >>]
             : h \in handle_email_notification(stored, candidature_id, email_service)}

\* process_complete_workflow: every outcome for the step that fails (fail_at,
\* "none" when no step does), the verdict of the analysis, the outcome of
\* report generation, the presence of the Python e-mail service and the
\* behaviour of the mail server.  management holds the status changes the
\* call logs in candidature_management, as <<old_value, new_value>>.
process_complete_workflow(d, fail_at, is_eligible, report_ok, email_service) ==
  LET created == create_candidature(d)
      candidature_id == Len(created.candidatures)
      d1 == update_candidature_status(created, candidature_id, "pending")
      stored == store_analysis_result(d1, candidature_id, is_eligible)
  IN IF fail_at \in WorkflowFailures
       THEN \* a failed store_analysis_result is rolled back
            {[db |-> update_candidature_status(d1, candidature_id, "failed"),
              result |-> [success |-> FALSE, candidature_id |-> candidature_id,
                          error |-> fail_at],
              management |-> << <<"pending", "pending">>, <<"pending", "failed">> >>]}
       ELSE {[db |-> h.db,
              result |-> [success |-> TRUE, candidature_id |-> candidature_id,
                          analysis_id |-> Len(stored.analysis_results),
                          report_filename |-> report_ok, email_sent |-> h.returned,
                          is_eligible |-> is_eligible],
              management |-> << <<"pending", "pending">>, <<"pending", "analyzed">>,
                                <<"analyzed", "analyzed">> >>]
             : h \in handle_email_notification(stored, candidature_id, email_service)}

\* a run of process_complete_workflow on the orchestrator
Workflow ==
  /\ call = NoCall
  /\ Len(db.candidatures) < MaxCandidatures
  /\ \E fail_at \in WorkflowFailures \cup {"none"},
        is_eligible, report_ok, email_service \in BOOLEAN :
       /\ (fail_at = "none" /\ email_service) => Len(db.email_tracking) < MaxEmails
       /\ \E o \in process_complete_workflow(db, fail_at, is_eligible, report_ok,
                                             email_service) :
            /\ db' = o.db
            /\ call' = Returned(MainAnalyzer, "process_complete_workflow",
                                [fail_at |-> fail_at, report_ok |-> report_ok,
                                 email_service |-> email_service],
                                "none", o.result @@ [management |-> o.management])
  /\ UNCHANGED <<analyzers, clock, memo, ai_client>>

\* a call of _handle_email_notification for an analysed candidature
HandleEmail ==
  /\ call = NoCall
  /\ \E candidature_id \in DOMAIN db.candidatures, email_service \in BOOLEAN :
       \* the caller passes the analysis result of the candidature
       /\ db.candidatures[candidature_id].analysis_result_id # NULL
       /\ email_service => Len(db.email_tracking) < MaxEmails
       /\ \E h \in handle_email_notification(db, candidature_id, email_service) :
            /\ db' = h.db
            /\ call' = Returned(MainAnalyzer, "_handle_email_notification",
                                [candidature_id |-> candidature_id,
                                 email_service |-> email_service,
                                 email_sent |-> db.candidatures[candidature_id].email_sent],
                                "none", [returned |-> h.returned, via |-> h.via,
                                         own_email |-> h.own_email, results |-> h.results])
  /\ UNCHANGED <<analyzers, clock, memo, ai_client>>

\* EmailService.add_candidature_to_queue, called on its own
QueueCandidature ==
  /\ call = NoCall
  /\ Len(db.email_tracking) < MaxEmails
  /\ \E candidature_id \in DOMAIN db.candidatures :
       LET q == add_candidature_to_queue(db, candidature_id)
       IN /\ db' = q.db
          /\ call' = Returned(MainAnalyzer, "add_candidature_to_queue",
                              [candidature_id |-> candidature_id], "none", q.ok)
  /\ UNCHANGED <<analyzers, clock, memo, ai_client>>

\* EmailQueueProcessor.process_queue(batch_size, max_attempts): max_attempts
\* is not read
ProcessQueue ==
  /\ call = NoCall
  /\ \E batch_size \in 1..MaxBatch :
       \E p \in process_email_queue(db, batch_size) :
         /\ db' = p.db
         /\ call' = Returned(MainAnalyzer, "process_queue",
                             [batch_size |-> batch_size], "none", p.results)
  /\ UNCHANGED <<analyzers, clock, memo, ai_client>>

RECURSIVE add_test_emails(_, _)
\* EmailQueueProcessor.add_test_emails(count): count times a candidature, its
\* analysis result (is_eligible for every other one) and its queue entry
add_test_emails(d, count) ==
  IF count = 0 THEN d
  ELSE LET before == add_test_emails(d, count - 1)
           created == create_candidature(before)
           candidature_id == Len(created.candidatures)
           stored == store_analysis_result(created, candidature_id, (count - 1) % 2 = 0)
       IN add_candidature_to_queue(stored, candidature_id).db

\* a run of add_test_emails
AddTestEmails ==
  /\ call = NoCall
  /\ \E count \in 1..MaxCandidatures :
       /\ Len(db.candidatures) + count <= MaxCandidatures
       /\ Len(db.email_tracking) + count <= MaxEmails
       /\ db' = add_test_emails(db, count)
       /\ call' = Returned(MainAnalyzer, "add_test_emails", [count |-> count], "none",
                           [k \in 1..count |-> Len(db.candidatures) + k])
  /\ UNCHANGED <<analyzers, clock, memo, ai_client>>

NextEmail == Workflow \/ HandleEmail \/ QueueCandidature \/ ProcessQueue \/ Return

SpecEmail == Init /\ [][NextEmail]_vars

\* the queue processor on its own, started again and again (monitor_queue
\* with continuous=True runs process_queue every interval seconds)
NextQueue == AddTestEmails \/ QueueCandidature \/ ProcessQueue \/ Return

SpecQueue ==
  /\ Init
  /\ [][NextQueue]_vars
  /\ WF_vars(ProcessQueue)
  /\ WF_vars(Return)

\* ------------- e-mail composition: RecommendationEngine ----------------
\* A string is kept as its text and the number of whitespace characters at
\* each of its ends, which is what strip() and len() read.

\* longest list of upstream recommendations in analysis_data
MaxUpstream == 6

Str(lead, body, trail) == [lead |-> lead, body |-> body, trail |-> trail]

\* the characters of a text without surrounding whitespace: the 49 of a brief
\* upstream recommendation, the 60 of a detailed one; every template of
\* RecommendationEngine is several hundred characters long
BodyLen(body) ==
  IF body[1] = "upstream" THEN (IF body[2] = 1 THEN 49 ELSE 60) ELSE 300

\* len(s)
StrLen(s) == s.lead + BodyLen(s.body) + s.trail

\* s.strip()
strip(s) == [s EXCEPT !.lead = 0, !.trail = 0]

\* the upstream recommendations drawn from: a brief one between two
\* whitespace characters (51 characters, 49 after strip), a detailed one
\* after a whitespace character, and a detailed one without whitespace
UpstreamStrings ==
  {Str(1, <<"upstream", 1>>, 1), Str(1, <<"upstream", 2>>, 0),
   Str(0, <<"upstream", 3>>, 0)}

RECURSIVE ListsUpTo(_, _)
\* the lists of at most n members of S
ListsUpTo(S, n) ==
  IF n = 0 THEN {<<>>}
  ELSE LET shorter == ListsUpTo(S, n - 1)
       IN shorter \cup {Append(l, x) : l \in {m \in shorter : Len(m) = n - 1}, x \in S}

\* total_score of analysis_data: one value below 30, one below 60, one above
EngineScores == {10, 45, 80}

\* BUSINESS_SECTOR of the context, as its words
BusinessSectors == {<<>>, <<"FINTECH">>, <<"Vente", "E-commerce">>, <<"Agriculture">>}

\* word.lower()
lower_word(word) ==
  CASE word = "FINTECH" -> "fintech"
    [] word = "FinTech" -> "fintech"
    [] word = "E-commerce" -> "e-commerce"
    [] word = "Vente" -> "vente"
    [] word = "Agriculture" -> "agriculture"
    [] OTHER -> word

\* self.recommendation_templates: four templates in each of three categories
recommendation_templates ==
  [category \in {"critical_restructure", "high_priority_fixes", "medium_improvements"} |->
     [i \in 1..4 |-> Str(0, <<category, i>>, 0)]]

\* self.sector_specific_recommendations, in the order of the dict
sector_specific_recommendations ==
  <<[sector |-> "E-commerce", recs |-> <<Str(0, <<"E-commerce", 1>>, 0)>>],
    [sector |-> "FinTech", recs |-> <<Str(0, <<"FinTech", 1>>, 0)>>]>>

\* random.sample(population, k): any k members at distinct positions, in any
\* order
random_sample(population, k) ==
  {[j \in 1..k |-> population[p[j]]] :
     p \in {q \in [1..k -> DOMAIN population] :
              \A a, b \in 1..k : a # b => q[a] # q[b]}}

\* variant: the recommendations that pass the filter are kept as they came
quality_recommendations_unstripped(existing_recs) ==
  SelectSeq(existing_recs,
            LAMBDA rec : StrLen(rec) > 0 /\ StrLen(strip(rec)) > 50)

\* the quality filter of generate_recommendations: the recommendations that
\* are not empty and longer than 50 characters once stripped, stripped
quality_recommendations(existing_recs) ==
  LET kept == SelectSeq(existing_recs,
                        LAMBDA rec : StrLen(rec) > 0 /\ StrLen(strip(rec)) > 50)
  IN [k \in DOMAIN kept |-> strip(kept[k])]

\* sector.lower() in business_sector.lower()
sector_in(sector, business_sector) ==
  \E k \in DOMAIN business_sector :
    lower_word(business_sector[k]) = lower_word(sector)

\* generate_recommendations from the score branches to the sector loop: what
\* the list can be when the while loop is reached
sampled_recommendations(recommendations, total_score, business_sector) ==
  LET by_score ==
        IF total_score < 30
        THEN random_sample(recommendation_templates["critical_restructure"],
                           Min(2, Len(recommendation_templates["critical_restructure"])))
        ELSE IF total_score < 60
        THEN random_sample(recommendation_templates["high_priority_fixes"],
                           Min(2, Len(recommendation_templates["high_priority_fixes"])))
        ELSE {<<>>}
      medium ==
        random_sample(recommendation_templates["medium_improvements"],
                      Min(2, Len(recommendation_templates["medium_improvements"])))
      matching == {k \in DOMAIN sector_specific_recommendations :
                     sector_in(sector_specific_recommendations[k].sector, business_sector)}
      by_sector ==
        IF matching = {} THEN {<<>>}
        ELSE LET first == CHOOSE k \in matching : \A m \in matching : k <= m
                 sector_recs == sector_specific_recommendations[first].recs
             IN random_sample(sector_recs, Min(1, Len(sector_recs)))
  IN {recommendations \o a \o b \o c : a \in by_score, b \in medium, c \in by_sector}

\* all_recs of the while loop
all_recs ==
  recommendation_templates["critical_restructure"]
    \o recommendation_templates["high_priority_fixes"]
    \o recommendation_templates["medium_improvements"]

\* the call is inside the while loop of generate_recommendations
Looping(input, recommendations) ==
  [Returned(0, "generate_recommendations", input, "random", recommendations)
     EXCEPT !.outcome = "running"]

\* RecommendationEngine.generate_recommendations(analysis_data, context) up
\* to its first return or to the while loop
GenerateRecommendations ==
  /\ call = NoCall
  /\ \E existing_recs \in ListsUpTo(UpstreamStrings, MaxUpstream),
        total_score \in EngineScores, business_sector \in BusinessSectors :
       LET input == [recommendations |-> existing_recs, total_score |-> total_score,
                     BUSINESS_SECTOR |-> business_sector]
           recommendations == quality_recommendations(existing_recs)
       IN IF Len(recommendations) >= 3
          THEN call' = Returned(0, "generate_recommendations", input, "upstream",
                                Take(recommendations, 5))
          ELSE \E sampled \in sampled_recommendations(recommendations, total_score,
                                                      business_sector) :
                 call' = IF Len(sampled) < 3
                         THEN Looping(input, sampled)
                         ELSE Returned(0, "generate_recommendations", input,
                                       "random", Take(sampled, 5))
  /\ UNCHANGED <<analyzers, clock, memo, ai_client, db>>

\* one turn of the while loop: random.choice(all_recs), appended unless it is
\* in the list; the loop is left with three recommendations
ChooseTemplate ==
  /\ call.op = "generate_recommendations"
  /\ call.outcome = "running"
  /\ \E k \in DOMAIN all_recs :
       LET rec == all_recs[k]
           recommendations ==
             IF \E j \in DOMAIN call.result : call.result[j] = rec
             THEN call.result ELSE Append(call.result, rec)
       IN call' = IF Len(recommendations) < 3
                  THEN [call EXCEPT !.result = recommendations]
                  ELSE [call EXCEPT !.outcome = "returned",
                                    !.result = Take(recommendations, 5)]
  /\ UNCHANGED <<analyzers, clock, memo, ai_client, db>>

\* the caller takes the list generate_recommendations returned
ReturnRecommendations ==
  /\ call.op = "generate_recommendations"
  /\ call.outcome = "returned"
  /\ call' = NoCall
  /\ UNCHANGED <<analyzers, clock, memo, ai_client, db>>

NextEngine == GenerateRecommendations \/ ChooseTemplate \/ ReturnRecommendations

\* random.choice gives every template the same chance at every turn, so a
\* loop that can append a template does append one
SpecEngine ==
  /\ Init
  /\ [][NextEngine]_vars
  /\ WF_vars(ChooseTemplate)

\* ------------------------------- properties ----------------------------
\* the call being served returned a result of the rule-based path
RuleBased ==
  /\ call.outcome = "returned"
  /\ call.result.analysis_method = "rule_based_comprehensive"

\* text.strip() == ""
Whitespace(text) == \A i \in 1..Len(text) : LineStats[text[i]].blank

\* the earned points of a list of criterion results or sub-scores
Earned(results) == [k \in 1..Len(results) |-> results[k].earned_points]

\* C1: in every analysis result the engine returns, from the rule-based path
\* or built by parse_ai_response, is_eligible is true exactly when
\* total_score >= 60, and the threshold is 60.
C1_EligibleIffAtLeast60 ==
  call.outcome = "returned" =>
    /\ call.result.threshold = 60
    /\ call.result.is_eligible <=> (call.result.total_score >= 60 * Unit)

\* a reply "Score total: 60" parsed into a result of exactly 60, eligible
C1_Witness ==
  /\ call.outcome = "returned"
  /\ call.op = "parse_ai_response"
  /\ call.result.total_score = 60 * Unit
  /\ call.result.is_eligible

\* C2: rule-based analysis returns exactly 12 criterion results, one per
\* criterion id 1..12 in rubric order, and total_score is the sum of their
\* earned_points.
C2_TwelveResultsSummed ==
  RuleBased =>
    /\ Len(call.result.criteria_results) = 12
    /\ \A k \in 1..12 : call.result.criteria_results[k].criterion_id = k
    /\ call.result.total_score = Sum(Earned(call.result.criteria_results))

\* a result with a positive total in which some criterion earned nothing
C2_Witness ==
  /\ RuleBased
  /\ call.result.total_score > 0
  /\ \E k \in 1..Len(call.result.criteria_results) :
        call.result.criteria_results[k].earned_points = 0

\* C3: every criterion result of rule-based analysis has
\* 0 <= earned_points <= max_points, whatever the counts are.
C3_EarnedWithinMax ==
  RuleBased =>
    \A k \in 1..Len(call.result.criteria_results) :
      LET r == call.result.criteria_results[k]
      IN 0 <= r.earned_points /\ r.earned_points <= r.max_points * Unit

\* the financing indicators times 0.6 exceed 10 points and the result holds 10
C3_Witness ==
  /\ RuleBased
  /\ call.result.criteria_results[11].reasoning[2] * 6 > 10 * 10
  /\ call.result.criteria_results[11].earned_points = 10 * Unit

\* a text of 5000 words in which every lexicon category, the currency pattern
\* and the percentage pattern occur at least ten times
KeywordDense5000(text) ==
  /\ split_words(text) = 5000
  /\ \A cat \in DOMAIN load_business_keywords :
        count_terms(lower(text), load_business_keywords[cat]) >= 10
  /\ findall_currency(text) >= 10
  /\ findall_percentages(text) >= 10

\* C4: a 5000-word text in which terms of all nine lexicon categories and
\* currency and percentage patterns occur many times gets a rule-based
\* total_score above 60 and is marked eligible.
C4_DensePlanEligible ==
  (RuleBased /\ KeywordDense5000(call.input)) =>
    /\ call.result.total_score > 60 * Unit
    /\ call.result.is_eligible

GenericCriteria == {3, 5, 6, 7, 8, 9, 12}

\* C5: for the criteria without a dedicated formula (3, 5, 6, 7, 8, 9, 12)
\* earned_points is the word count times a positive constant, capped at
\* max_points: zero without words, positive and at most max_points with words.
C5_GenericFollowsWordCount ==
  RuleBased =>
    \A k \in GenericCriteria :
      LET r == call.result.criteria_results[k]
          words == split_words(call.input)
      IN /\ words = 0 => r.earned_points = 0
         /\ words > 0 => (r.earned_points > 0 /\ r.earned_points <= r.max_points * Unit)

\* C6: for the empty string rule-based analysis does not raise and returns
\* total_score 0, is_eligible false, all 12 criteria at 0 earned points and a
\* non-empty recommendations list.
C6_EmptyStringScoresZero ==
  (call.op = "analyze_business_plan" /\ call.method = "rule_based" /\ call.input = <<>>) =>
    /\ call.outcome = "returned"
    /\ call.result.total_score = 0
    /\ ~call.result.is_eligible
    /\ Len(call.result.criteria_results) = 12
    /\ \A k \in 1..12 : call.result.criteria_results[k].earned_points = 0
    /\ Len(call.result.recommendations) > 0

\* the rule-based call on the empty string has returned
C6_Witness ==
  /\ call.op = "analyze_business_plan"
  /\ call.method = "rule_based"
  /\ call.input = <<>>
  /\ call.outcome = "returned"

\* C7 as stated: for empty or whitespace-only text the recommendations hold
\* the general entry "CRITIQUE - Retravailler les fondamentaux".
C7_EmptyGetsFundamentalsEntry ==
  (RuleBased /\ Whitespace(call.input)) =>
    \E i \in 1..Len(call.result.recommendations) :
      /\ call.result.recommendations[i].priority = "CRITIQUE"
      /\ call.result.recommendations[i].title = "Retravailler les fondamentaux"

\* C7 as amended: for empty or whitespace-only text the recommendations are
\* the five criterion-specific entries of criteria 4, 1, 2, 8 and 9, in that
\* order, each labelled CRITIQUE with 0.0 points earned; no general entry.
C7_EmptyGetsFiveSpecific ==
  (RuleBased /\ Whitespace(call.input)) =>
    /\ Len(call.result.recommendations) = 5
    /\ \A i \in 1..5 :
         LET id == <<4, 1, 2, 8, 9>>[i]
         IN call.result.recommendations[i] =
              [priority |-> "CRITIQUE", sep |-> " - ",
               title |-> recommendations_map[id],
               content |-> <<0, validation_grid[id].max_points>>]

\* a rule-based result for a text of blank lines only that is not empty
C7_Witness ==
  /\ RuleBased
  /\ call.input # <<>>
  /\ Whitespace(call.input)

\* both the kept call and the call being served are rule-based results
BothRuleBased ==
  /\ RuleBased
  /\ memo.outcome = "returned"
  /\ memo.result.analysis_method = "rule_based_comprehensive"

\* C8: two rule-based calls with identical text, on the same or on different
\* analyzers and with other calls in between, yield identical total_score,
\* is_eligible, criteria_results and recommendations.
C8_SameTextSameResult ==
  (BothRuleBased /\ memo.input = call.input) =>
    /\ memo.result.total_score = call.result.total_score
    /\ memo.result.is_eligible = call.result.is_eligible
    /\ memo.result.criteria_results = call.result.criteria_results
    /\ memo.result.recommendations = call.result.recommendations

\* the same non-empty text analysed twice on one analyzer, at different dates
C8_Witness ==
  /\ BothRuleBased
  /\ memo.input = call.input
  /\ call.input # <<>>
  /\ memo.analyzer = call.analyzer
  /\ memo.result.evaluation_date # call.result.evaluation_date

\* C9: in every rule-based criterion result each sub-score's earned_points is
\* earned_total x sub.max / criterion.max, and the sub-scores' earned_points
\* sum to the criterion's earned_points.
C9_SubScoresProportional ==
  RuleBased =>
    \A k \in 1..Len(call.result.criteria_results) :
      LET r == call.result.criteria_results[k]
      IN /\ \A j \in 1..Len(r.sub_scores) :
              r.sub_scores[j].earned_points * r.max_points
                = r.earned_points * r.sub_scores[j].max_points
         /\ Sum(Earned(r.sub_scores)) = r.earned_points

\* criterion 1 earned 0.9 points, spread 0.27 / 0.36 / 0.27
C9_Witness ==
  /\ RuleBased
  /\ call.result.criteria_results[1].earned_points = (9 * Unit) \div 10
  /\ Earned(call.result.criteria_results[1].sub_scores)
       = <<(27 * Unit) \div 100, (36 * Unit) \div 100, (27 * Unit) \div 100>>

\* C10: the rubric of every analyzer has 12 criteria with ids 1..12, their
\* max_points sum to 100, and the points of the sub-criteria of each
\* criterion sum to its max_points.
C10_RubricWellFormed ==
  \A a \in Analyzers :
    LET criteria == analyzers[a].criteria
    IN /\ Len(criteria) = 12
       /\ \A k \in 1..12 : criteria[k].id = k
       /\ Sum([k \in 1..Len(criteria) |-> criteria[k].max_points]) = 100
       /\ \A k \in 1..Len(criteria) :
            Sum([j \in 1..Len(criteria[k].sub_criteria) |->
                   criteria[k].sub_criteria[j].points]) = criteria[k].max_points

\* a returned result whose criteria carry the 100 points of the rubric
C10_Witness ==
  /\ call.outcome = "returned"
  /\ Sum([k \in 1..Len(call.result.criteria_results) |->
            call.result.criteria_results[k].max_points]) = 100

\* the orchestrator call being served took the AI path
MainOnAIPath ==
  /\ call.op = "_analyze_business_plan"
  /\ ai_path_selected(call.method, call.input.ollama)

\* the LLM call of the call being served failed or found no model
LLMFailed ==
  \/ ~ai_client.available_methods.ollama
  \/ call.input.ollama.model = "None"
  \/ call.input.ollama.status # 200
  \/ call.input.ollama.content = <<>>

\* C11: whenever the orchestrator selects the AI path (method 'ai', or
\* 'auto' with the server reachable) and the LLM call fails or no model is
\* available, _analyze_business_plan falls back to the rule-based path and
\* returns its analysis instead of raising.
C11_LLMFailureFallsBack ==
  (MainOnAIPath /\ LLMFailed) =>
    /\ call.outcome = "returned"
    /\ call.result.analysis_method = "rule_based_comprehensive"

\* the criterion a specific recommendation is about, by its title
TitleId(title) == CHOOSE i \in DOMAIN recommendations_map : recommendations_map[i] = title

\* the recommendation is one of the twelve criterion-specific ones
IsSpecific(rec) == \E i \in DOMAIN recommendations_map : recommendations_map[i] = rec.title

\* earned/max x 100 < 70
C12Weak(cr) == cr.earned_points * 100 < 70 * cr.max_points * Unit

\* max_points x (70 - performance), then max_points
C12Rank(cr) == <<70 * cr.max_points * Unit - 100 * cr.earned_points, cr.max_points>>

\* the criteria the specific recommendations of a list are about, in order
SpecificIds(recs) ==
  LET specific == SelectSeq(recs, IsSpecific)
  IN [k \in 1..Len(specific) |-> TitleId(specific[k].title)]

\* C12: a criterion is weak exactly when earned/max x 100 < 70; the
\* criterion-specific recommendations are those of the 5 highest-ranked weak
\* criteria (all of them when fewer are weak), in rank order, rank being
\* descending max_points x (70 - performance), then larger max_points first.
C12_TopFiveWeakInRankOrder ==
  RuleBased =>
    LET results == call.result.criteria_results
        recs == call.result.recommendations
        ids == SpecificIds(recs)
        weak == {i \in 1..Len(results) : C12Weak(results[i])}
        listed == {ids[k] : k \in 1..Len(ids)}
        rank(i) == C12Rank(results[i])
    IN /\ Len(ids) = Min(5, Cardinality(weak))
       /\ listed \subseteq weak
       /\ Cardinality(listed) = Len(ids)
       /\ \A k \in 1..Len(ids) : IsSpecific(recs[k])
       /\ \A j, k \in 1..Len(ids) : j < k => ~KeyGreater(rank(ids[k]), rank(ids[j]))
       /\ \A i \in weak \ listed, k \in 1..Len(ids) : ~KeyGreater(rank(i), rank(ids[k]))

\* a plan with a criterion at 70% or more, more than five weak criteria, and
\* the 15-point criterion not at the head of the list
C12_Witness ==
  /\ RuleBased
  /\ \E i \in 1..12 : ~C12Weak(call.result.criteria_results[i])
  /\ Cardinality({i \in 1..12 : C12Weak(call.result.criteria_results[i])}) > 5
  /\ LET ids == SpecificIds(call.result.recommendations)
     IN Len(ids) = 5 /\ ids[1] # 4 /\ ids[5] < ids[1]

\* the call being served applied _generate_specific_recommendation
SpecificCall ==
  /\ call.op = "_generate_specific_recommendation"
  /\ call.outcome = "returned"

\* C13: the priority label of a criterion-specific recommendation is
\* CRITIQUE if max_points >= 10 and performance < 40; otherwise HAUTE if
\* max_points >= 10 or performance < 50; otherwise MOYENNE if
\* performance < 60; otherwise FAIBLE.
C13_PriorityLabel ==
  SpecificCall =>
    LET max_points == call.input.max_points
        \* performance < p, with performance = points / max_points x 100
        Below(p) == call.input.points * 100 < p * max_points * Unit
    IN call.result.priority =
         CASE max_points >= 10 /\ Below(40) -> "CRITIQUE"
           [] ~(max_points >= 10 /\ Below(40)) /\ (max_points >= 10 \/ Below(50)) -> "HAUTE"
           [] ~(max_points >= 10 \/ Below(50)) /\ Below(60) -> "MOYENNE"
           [] OTHER -> "FAIBLE"

\* a 5-point criterion at 60% or more, which gets the last label
C13_Witness ==
  /\ SpecificCall
  /\ call.input.max_points < 10
  /\ call.input.points * 100 >= 60 * call.input.max_points * Unit
  /\ call.result.priority = "FAIBLE"

\* the call being served applied _generate_rule_based_recommendations
RecommendationsCall ==
  /\ call.op = "_generate_rule_based_recommendations"
  /\ call.outcome = "returned"

\* the titles of the general recommendations whose trigger holds, in the
\* order word count, currency, total score, professional terms
TriggeredTitles(analysis_data, criteria_results) ==
  LET total == Sum(Earned(criteria_results))
      entries ==
        << <<"Développement du business plan", analysis_data.word_count < 1500>>,
           <<"Ajout d'éléments financiers", analysis_data.has_currency = 0>>,
           <<"Retravailler les fondamentaux", total < 40 * Unit>>,
           <<"Professionnalisation du discours", analysis_data.professional_terms < 5>> >>
      Holds(e) == e[2]
      triggered == SelectSeq(entries, Holds)
  IN [k \in 1..Len(triggered) |-> triggered[k][1]]

\* the titles of the entries of a list from position n + 1 on
TitlesAfter(recs, n) == [k \in 1..(Len(recs) - n) |-> recs[n + k].title]

\* C14: general recommendations are appended exactly when fewer than 3
\* criterion-specific recommendations were produced; then each of the four
\* general entries is present iff its trigger holds (word count < 1500, no
\* currency match, total score < 40, professional-term count < 5), in that
\* order, after the specific ones.
C14_GeneralWhenFewSpecific ==
  RecommendationsCall =>
    LET recs == call.result
        specific == Len(SpecificIds(recs))
    IN /\ \A k \in 1..specific : IsSpecific(recs[k])
       /\ TitlesAfter(recs, specific) =
            IF specific < 3
              THEN TriggeredTitles(call.input.analysis_data, call.input.criteria_results)
              ELSE <<>>

\* two specific recommendations followed by some but not all general ones
C14_Witness ==
  /\ RecommendationsCall
  /\ Len(SpecificIds(call.result)) = 2
  /\ Len(call.result) \in {3, 4}
  /\ ~IsSpecific(call.result[3])

PriorityLabels == {"CRITIQUE", "HAUTE", "MOYENNE", "FAIBLE"}

\* the list is in insertion order: the specific entries in rank order of
\* their criteria, then the general ones
InsertionOrder(recs, results) ==
  LET ids == SpecificIds(recs)
  IN /\ \A k \in 1..Len(ids) : IsSpecific(recs[k])
     /\ \A j, k \in 1..Len(ids) :
          j < k => ~KeyGreater(C12Rank(results[ids[k]]), C12Rank(results[ids[j]]))

\* C15: for every input text the rule-based recommendations list has at most
\* 6 entries, is in insertion order, and every entry has the form
\* "<priority>-<title>: <body>", the label followed directly by the hyphen,
\* with priority one of CRITIQUE, HAUTE, MOYENNE, FAIBLE.
C15_AtMostSixHyphenForm ==
  RuleBased =>
    LET recs == call.result.recommendations
    IN /\ Len(recs) <= 6
       /\ InsertionOrder(recs, call.result.criteria_results)
       /\ \A k \in 1..Len(recs) :
            recs[k].priority \in PriorityLabels /\ recs[k].sep = "-"

\* C15 as amended: for every input text the rule-based recommendations list
\* has at most 6 entries, is in insertion order, and every entry has the
\* form "<priority> - <title>: <body>", the label and the title separated by
\* space, hyphen, space, with priority one of CRITIQUE, HAUTE, MOYENNE,
\* FAIBLE.
C15_AtMostSixSpacedForm ==
  RuleBased =>
    LET recs == call.result.recommendations
    IN /\ Len(recs) <= 6
       /\ InsertionOrder(recs, call.result.criteria_results)
       /\ \A k \in 1..Len(recs) :
            recs[k].priority \in PriorityLabels /\ recs[k].sep = " - "

\* a list of rule-based recommendations holding two different labels
C15_Witness ==
  /\ RuleBased
  /\ Len(call.result.recommendations) > 0
  /\ \E j, k \in 1..Len(call.result.recommendations) :
       /\ call.result.recommendations[j].priority = "CRITIQUE"
       /\ call.result.recommendations[k].priority = "HAUTE"

\* the call being served applied _perform_comprehensive_analysis
FeaturesCall ==
  /\ call.op = "_perform_comprehensive_analysis"
  /\ call.outcome = "returned"

\* the counts of a feature bag, has_sections left aside
FeatureCounts(bag) == {bag[key] : key \in DOMAIN bag \ {"has_sections"}}

\* C16: feature extraction returns a feature bag for every string, and for
\* the empty string every entry of the bag is zero or false: all keyword
\* counts, the word, sentence and paragraph counts, has_sections, and the
\* digit, percentage and currency signals.
C16_EmptyStringAllZero ==
  /\ call.op = "_perform_comprehensive_analysis" => call.outcome = "returned"
  /\ (FeaturesCall /\ call.input = <<>>) =>
       /\ FeatureCounts(call.result) = {0}
       /\ call.result.has_sections = FALSE

\* the line holding '$500,000', '15%' and three times 'revenue'
FinancialTokens == "revenue revenue revenue $500,000 15%"

\* text with one more line put in after its first pos lines
InsertLine(text, pos, line) ==
  SubSeq(text, 1, pos) \o <<line>> \o SubSeq(text, pos + 1, Len(text))

\* the points criterion id earns for a text on the rule-based path
PointsFor(self, id, text) ==
  evaluate_criterion_with_rules(self.criteria[id], text,
                                perform_comprehensive_analysis(self, text)).earned_points

\* the call being served evaluated criterion 10 or 11 for a text
FinancialCriterionCall ==
  /\ call.op = "_evaluate_criterion_with_rules"
  /\ call.outcome = "returned"
  /\ call.input.criterion_id \in {10, 11}

\* C17: for any base text, adding one currency amount ('$500,000'), one
\* percentage ('15%') and three occurrences of 'revenue' never lowers the
\* scores of 'Financements détaillés' (id 11) and 'Modèle de business'
\* (id 10), and makes each strictly higher whenever the base score is below
\* the cap of 10.
C17_FinancialTokensRaiseScores ==
  FinancialCriterionCall =>
    \A pos \in 0..Len(call.input.text) :
      LET base == call.result.earned_points
          more == PointsFor(analyzers[call.analyzer], call.input.criterion_id,
                            InsertLine(call.input.text, pos, FinancialTokens))
      IN /\ more >= base
         /\ base < 10 * Unit => more > base

\* the financing score of a base text of two lines that already names a
\* currency amount, a percentage and 'revenue' and is below the cap
C17_Witness ==
  /\ FinancialCriterionCall
  /\ call.input.criterion_id = 11
  /\ Len(call.input.text) = 2
  /\ \E i \in 1..2 : call.input.text[i] = FinancialTokens
  /\ call.result.earned_points \in 1..(10 * Unit - 1)

\* C18: a rule-based analysis call leaves the analyzers' criteria lists,
\* thresholds and keyword lexicons as they were, so a later call reads
\* nothing an earlier call wrote.
C18_CallLeavesAnalyzersUnchanged ==
  [][(call = NoCall /\ call' # NoCall) => analyzers' = analyzers]_vars

\* a second rule-based call has been served after a first one was completed
C18_Witness ==
  /\ RuleBased
  /\ memo.outcome = "returned"
  /\ memo.analyzer = call.analyzer

\* C19: for every input text the rule-based total_score is at most 55: only
\* criteria 1, 2, 4, 10 and 11 earn points, criteria 3, 5, 6, 7, 8, 9 and 12
\* always earn 0; hence is_eligible is false for every rule-based result.
C19_RuleBasedNeverAbove55 ==
  RuleBased =>
    /\ call.result.total_score <= 55 * Unit
    /\ \A k \in GenericCriteria : call.result.criteria_results[k].earned_points = 0
    /\ ~call.result.is_eligible

\* a plan with criteria 1, 2, 4, 10 and 11 at their caps: 55 points
C19_Witness ==
  /\ RuleBased
  /\ call.result.total_score = 55 * Unit
  /\ \A k \in {1, 2, 4, 10, 11} :
       call.result.criteria_results[k].earned_points =
         call.result.criteria_results[k].max_points * Unit

\* the features of the text of the call being served
FeaturesOfInput == perform_comprehensive_analysis(analyzers[call.analyzer], call.input)

\* occurrences of the given words in the lowered text of the call
WordsInInput(words) ==
  Sum([k \in 1..Len(words) |-> str_count(lower(call.input), words[k])])

\* min(weight x count, cap) points, weight given in tenths, as units
Reference(tenths, count, cap) ==
  IF tenths * count >= 10 * cap THEN cap * Unit ELSE (tenths * count * Unit) \div 10

\* C20: the keyword-driven criteria follow their reference formulas:
\* Équipe = min(0.3 x team_terms, 10); Problématique = min(2 x (count of
\* 'problème' + 'problem' + 'besoin'), 10); Solution proposée = min(1.5 x
\* (count of 'solution' + 'innovation'), 15); Modèle de business = min(0.8 x
\* (financial_terms + 3 if there is at least one currency match), 10), the
\* bonus not depending on the number of matches; Financements = min(0.6 x
\* (financial_terms + currency matches + percentage matches), 10).
C20_ReferenceFormulas ==
  RuleBased =>
    LET f == FeaturesOfInput
        earned(id) == call.result.criteria_results[id].earned_points
    IN /\ earned(1) = Reference(3, f.team_terms, 10)
       /\ earned(2) = Reference(20, WordsInInput(<<"problème", "problem", "besoin">>), 10)
       /\ earned(4) = Reference(15, WordsInInput(<<"solution", "innovation">>), 15)
       /\ earned(10) = Reference(8, f.financial_terms
                                    + (IF f.has_currency >= 1 THEN 3 ELSE 0), 10)
       /\ earned(11) = Reference(6, f.financial_terms + f.has_currency
                                    + f.has_percentages, 10)

\* a plan with two currency matches whose business-model and financing
\* scores are below the cap
C20_Witness ==
  /\ RuleBased
  /\ FeaturesOfInput.has_currency = 2
  /\ call.result.criteria_results[10].earned_points < 10 * Unit
  /\ call.result.criteria_results[11].earned_points \in 1..(10 * Unit - 1)

\* C21: for every input text the rule-based recommendations list has exactly
\* 5 entries, all of them criterion-specific: at least 7 criteria are weak,
\* the general-recommendation branch is not taken and no general
\* recommendation is in the list.
C21_ExactlyFiveSpecific ==
  RuleBased =>
    LET results == call.result.criteria_results
        recs == call.result.recommendations
    IN /\ Cardinality({i \in 1..Len(results) : C12Weak(results[i])}) >= 7
       /\ Len(recs) = 5
       /\ \A k \in 1..Len(recs) : IsSpecific(recs[k])
       /\ ~needs_general(SelectSeq(recs, IsSpecific))

\* a plan whose five text-driven criteria are all at 70% or more, so that
\* exactly seven criteria are weak
C21_Witness ==
  /\ RuleBased
  /\ Cardinality({i \in 1..12 : C12Weak(call.result.criteria_results[i])}) = 7
  /\ Len(call.result.recommendations) = 5

\* the entry of a list of recommendations about criterion id, if any
EntriesFor(recs, id) ==
  {k \in 1..Len(recs) : IsSpecific(recs[k]) /\ TitleId(recs[k].title) = id}

\* C22: for every input text the rule-based recommendations include the
\* entries for criterion 8 (Différenciation) and criterion 9 (Stratégie de
\* conquête du marché), both labelled CRITIQUE, and every recommendation in
\* the list is labelled CRITIQUE or HAUTE.
C22_DifferentiationAndStrategyCritical ==
  RuleBased =>
    LET recs == call.result.recommendations
    IN /\ \A id \in {8, 9} :
            /\ EntriesFor(recs, id) # {}
            /\ \A k \in EntriesFor(recs, id) : recs[k].priority = "CRITIQUE"
       /\ \A k \in 1..Len(recs) : recs[k].priority \in {"CRITIQUE", "HAUTE"}

\* a plan where four criteria rank before criterion 9, which takes the last
\* of the five places, right after criterion 8
C22_Witness ==
  /\ RuleBased
  /\ LET ids == SpecificIds(call.result.recommendations)
     IN Len(ids) = 5 /\ ids[4] = 8 /\ ids[5] = 9

\* the call being served is an analyze_business_plan call
AnalyzeCall == call.op = "analyze_business_plan"

\* a result without the two fields read from the clock
Timeless(result) == [result EXCEPT !.evaluation_date = 0, !.processing_time = 0]

\* C23: analyze_business_plan with method 'auto' returns, for every text, the
\* result method 'rule_based' gives for that text (analysis_method
\* 'rule_based_comprehensive'; the time stamp and the processing time set
\* aside); method 'ai' raises without returning a result; any other method
\* name raises ValueError.
C23_AutoIsRuleBased ==
  AnalyzeCall =>
    /\ call.method = "auto" =>
         /\ call.outcome = "returned"
         /\ call.result.analysis_method = "rule_based_comprehensive"
         /\ Timeless(call.result)
              = analyze_with_rules(analyzers[call.analyzer], call.input, 0, 0)
    /\ call.method = "rule_based" =>
         /\ call.outcome = "returned"
         /\ Timeless(call.result)
              = analyze_with_rules(analyzers[call.analyzer], call.input, 0, 0)
    /\ call.method = "ai" =>
         /\ call.outcome = "raised"
         /\ call.exception = "NotImplementedError"
         /\ call.result = <<>>
    /\ call.method \notin {"auto", "ai", "rule_based"} =>
         /\ call.outcome = "raised"
         /\ call.exception = "ValueError"
         /\ call.result = <<>>

\* an 'auto' call on a plan that earns points, answered by the rule-based path
C23_Witness ==
  /\ AnalyzeCall
  /\ call.method = "auto"
  /\ call.outcome = "returned"
  /\ call.result.total_score > 0

\* the call being served is a result built by parse_ai_response
ParsedReply ==
  /\ call.op = "parse_ai_response"
  /\ call.outcome = "returned"

\* C24: an analysis result built by parse_ai_response from any LLM reply has
\* 12 criterion results in rubric order, each with
\* 0 <= earned_points <= max_points, and a total_score equal to the sum of
\* the 12 earned_points and within 0..100.
C24_ParsedResultWellShaped ==
  ParsedReply =>
    LET results == call.result.criteria_results
    IN /\ Len(results) = 12
       /\ \A k \in 1..Len(results) :
            /\ results[k].criterion_id = k
            /\ results[k].max_points = validation_grid[k].max_points
            /\ 0 <= results[k].earned_points
            /\ results[k].earned_points <= results[k].max_points * Unit
       /\ call.result.total_score = Sum(Earned(results))
       /\ 0 <= call.result.total_score
       /\ call.result.total_score <= 100 * Unit

\* the call being served is a run of process_complete_workflow
WorkflowCall == call.op = "process_complete_workflow"

\* C25: in process_complete_workflow, if a step raises after the candidature
\* row was created (extraction, storage of the text, analysis, storage of
\* the result), the candidature ends with status 'failed' and the returned
\* result has success False and carries that candidature's id; when no step
\* raises the status goes pending -> analyzed and the result is a success
\* whether or not the report was generated and the e-mail was sent.
C25_FailureMarksCandidatureFailed ==
  WorkflowCall =>
    LET result == call.result
        candidature_id == result.candidature_id
        changes == result.management
    IN /\ candidature_id = Len(db.candidatures)
       /\ call.input.fail_at # "none" =>
            /\ db.candidatures[candidature_id].status = "failed"
            /\ result.success = FALSE
       /\ call.input.fail_at = "none" =>
            /\ result.success = TRUE
            /\ db.candidatures[candidature_id].status = "analyzed"
            /\ changes[1][2] = "pending"
            /\ changes[Len(changes)][2] = "analyzed"
            /\ \A k \in 1..Len(changes) :
                 changes[k] \in {<<"pending", "pending">>, <<"pending", "analyzed">>,
                                 <<"analyzed", "analyzed">>}

\* a workflow that neither generated the report nor sent the e-mail, and is
\* a success all the same
C25_Witness ==
  /\ WorkflowCall
  /\ call.input.fail_at = "none"
  /\ ~call.input.report_ok
  /\ ~call.result.email_sent
  /\ call.result.success

\* the call being served is a call of _handle_email_notification
HandleCall == call.op = "_handle_email_notification"

\* C26: once a candidature has been marked email_sent, a later call of
\* _handle_email_notification for it returns True without adding an email
\* to the queue and without sending again, by the queue or by the PHP
\* script.
C26_NoDuplicateEmail ==
  (HandleCall /\ call.input.email_sent) =>
    /\ call.result.returned = TRUE
    /\ call.result.own_email = NULL
    /\ call.result.results.taken = {}
    /\ call.result.via = "already"

\* C27: when _handle_email_notification queues a candidature's email and
\* processes the queue with batch_size=1, the row processed is the row it
\* queued, and the candidature is marked email_sent by the queue only if
\* that row became 'sent', whatever the queue held before.
C27_OwnEmailProcessed ==
  (HandleCall /\ call.result.own_email # NULL) =>
    /\ call.result.results.taken = {call.result.own_email}
    /\ call.result.via = "queue" =>
         db.email_tracking[call.result.own_email].sent_status = "sent"

\* max_attempts of process_queue, at its default
max_attempts == 3

\* row i of email_tracking exists and has the given status
EmailIs(i, status) ==
  /\ i \in DOMAIN db.email_tracking
  /\ db.email_tracking[i].sent_status = status

\* C28: an email whose sending failed is attempted again by later
\* process_queue calls, until it is sent or max_attempts attempts have been
\* made: with the queue processed again and again, a failed row with fewer
\* than max_attempts attempts leads to the row being sent or to max_attempts
\* attempts.
C28_FailedEmailRetried ==
  \A i \in 1..MaxEmails :
    (EmailIs(i, "failed") /\ db.email_tracking[i].retry_count < max_attempts)
      ~> (\/ EmailIs(i, "sent")
          \/ (i \in DOMAIN db.email_tracking
                /\ db.email_tracking[i].retry_count >= max_attempts))

\* the pending rows of a table of email_tracking
PendingRows(rows) == {i \in DOMAIN rows : rows[i].sent_status = "pending"}

\* the steps that run process_email_queue: process_queue itself, and
\* _handle_email_notification alone or at the end of the workflow
RunsQueue(c) ==
  c.op \in {"process_queue", "_handle_email_notification", "process_complete_workflow"}

EngineCall == call.op = "generate_recommendations"

\* the upstream recommendations of more than 50 characters
LongerThan50(existing_recs) ==
  SelectSeq(existing_recs, LAMBDA rec : StrLen(rec) > 50)

\* the upstream recommendations of more than 50 characters without
\* surrounding whitespace
LongerThan50Stripped(existing_recs) ==
  SelectSeq(existing_recs, LAMBDA rec : StrLen(strip(rec)) > 50)

\* C30 as stated: generate_recommendations terminates and returns 3 to 5
\* recommendations; it samples at random only when fewer than 3 upstream
\* recommendations have more than 50 characters, and otherwise returns the
\* first 5 of these unchanged and in order.
C30_QualifyingReturnedUnchanged ==
  /\ [](EngineCall /\ call.outcome = "returned" =>
          LET qualifying == LongerThan50(call.input.recommendations)
          IN /\ Len(call.result) \in 3..5
             /\ call.method = "random" <=> Len(qualifying) < 3
             /\ Len(qualifying) >= 3 => call.result = Take(qualifying, 5))
  /\ (EngineCall /\ call.outcome = "running")
       ~> (EngineCall /\ call.outcome = "returned")

\* C30: generate_recommendations terminates and returns 3 to 5
\* recommendations; it samples at random only when fewer than 3 upstream
\* recommendations have more than 50 characters once stripped, and otherwise
\* returns the first 5 of these in order, each stripped of its surrounding
\* whitespace.
C30_QualifyingReturnedStripped ==
  /\ [](EngineCall /\ call.outcome = "returned" =>
          LET qualifying == LongerThan50Stripped(call.input.recommendations)
          IN /\ Len(call.result) \in 3..5
             /\ call.method = "random" <=> Len(qualifying) < 3
             /\ Len(qualifying) >= 3 =>
                  /\ Len(call.result) = Min(5, Len(qualifying))
                  /\ \A k \in DOMAIN call.result :
                       call.result[k] = strip(qualifying[k]))
  /\ (EngineCall /\ call.outcome = "running")
       ~> (EngineCall /\ call.outcome = "returned")

\* six upstream recommendations pass the filter, the first of them after
\* being stripped, and five were returned without sampling
C30_Witness ==
  /\ EngineCall
  /\ call.outcome = "returned"
  /\ call.method = "upstream"
  /\ Len(LongerThan50Stripped(call.input.recommendations)) = 6
  /\ call.input.recommendations[1].lead = 1
  /\ Len(call.result) = 5

=============================================================================
